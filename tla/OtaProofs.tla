------------------------------ MODULE OtaProofs ------------------------------
(***************************************************************************)
(* Proofs about OtaBoot and OtaFlash, for any set of images, any number of *)
(* updates and any number of faults.  The device of OtaFlash is OtaBoot:   *)
(* every step of FlashSpec is one of its steps or leaves it alone, so what *)
(* is shown of the device alone holds with the flasher around it.          *)
(***************************************************************************)
EXTENDS OtaFlash, TLAPS

(* The inductive invariant.  While otadata is at rest *)
(* the running partition's entry, if it is still there, is the newest; the *)
(* operations finalize has still to do are the end of one of two plans,    *)
(* with or without seeding; mark_valid only writes the running slot.       *)
Rest == {"booting", "idle", "download", "verify"}
RunningIsNewest ==
    pc \in Rest => /\ NoneValid(slots) => running = Ota0
                   /\ slots[running] # 0 => slots[running] > slots[Target]
PlanOf(new, seed) ==
    \/ /\ todo = <<FlashOp(Target, 0), FlashOp(Target, new)>>
       /\ new > slots[running]
       /\ slots[running] > slots[Target]
    \/ /\ todo = <<FlashOp(Target, new)>>
       /\ new > slots[running]
       /\ slots[Target] = 0
    \/ /\ todo = <<FlashOp(Target, 0), FlashOp(Target, new),
                   FlashOp(running, 0), FlashOp(running, seed)>>
       /\ new > seed /\ slots[running] = 0
    \/ /\ todo = <<FlashOp(Target, new), FlashOp(running, 0), FlashOp(running, seed)>>
       /\ new > seed /\ NoneValid(slots)
    \/ /\ todo = <<FlashOp(running, 0), FlashOp(running, seed)>>
       /\ slots[Target] > seed /\ slots[running] = 0
    \/ /\ todo = <<FlashOp(running, seed)>>
       /\ slots[Target] > seed /\ slots[running] = 0
    \/ /\ todo = <<>>
       /\ slots[Target] > slots[running]
FinalizePlan == pc = "finalizing" => \E new, seed \in Nat \ {0} : PlanOf(new, seed)
ValidatePlan ==
    pc = "validating" =>
        /\ slots[Target] # 0
        /\ \/ todo = <<>> /\ slots[running] > slots[Target]
           \/ \E new \in Nat \ {0} :
                 /\ new > slots[Target]
                 /\ slots[running] = 0
                 /\ \/ todo = <<FlashOp(running, new)>>
                    \/ todo = <<FlashOp(running, 0), FlashOp(running, new)>>
TodoStandsForPartitions ==
    \A k \in DOMAIN todo : todo[k].seq = 0 \/ PartitionOf(todo[k].seq) = todo[k].slot
QuietAtRest == pc \in Rest \cup {"reset"} => todo = <<>>
IInv ==
    /\ TypeOK
    /\ SlotsStandForPartitions
    /\ TodoStandsForPartitions
    /\ QuietAtRest
    /\ RunningIsNewest
    /\ FinalizePlan
    /\ ValidatePlan

-----------------------------------------------------------------------------
(* Sequence numbers.                                                       *)

(* Sequence numbers stand for the two partitions in turn. *)
LEMMA Parity ==
    /\ PartitionOf(1) = Ota0 /\ PartitionOf(2) = Ota1
    /\ \A n \in Nat \ {0} : /\ PartitionOf(n) \in Partitions
                           /\ PartitionOf(n + 1) = Other(PartitionOf(n))
                           /\ PartitionOf(n + 2) = PartitionOf(n)
  BY DEF PartitionOf, Ota0, Ota1, Partitions, Other

(* The other of two partitions is the other one, both ways. *)
LEMMA OtherPartition ==
    \A p \in Partitions : Other(p) \in Partitions /\ Other(p) # p /\ Other(Other(p)) = p
  BY DEF Partitions, Ota0, Ota1, Other

(* The greater of the two numbers. *)
LEMMA MaxSeqIsMax ==
    ASSUME NEW s \in [Slots -> Nat]
    PROVE  /\ MaxSeq(s) \in Nat
           /\ \A i \in Slots : s[i] <= MaxSeq(s)
           /\ \E i \in Slots : s[i] = MaxSeq(s)
           /\ NoneValid(s) <=> MaxSeq(s) = 0
  BY DEF MaxSeq, NoneValid, Slots

(* The number set_boot_partition writes is new and stands for p. *)
LEMMA NextSeqFits ==
    ASSUME NEW s \in [Slots -> Nat], NEW p \in Partitions
    PROVE  /\ NextSeq(s, p) \in Nat \ {0}
           /\ PartitionOf(NextSeq(s, p)) = p
           /\ \A i \in Slots : NextSeq(s, p) > s[i]
  <1> DEFINE m == MaxSeq(s)
  <1>1. m \in Nat /\ \A i \in Slots : s[i] <= m
    BY MaxSeqIsMax
  <1>2. CASE m = 0
    BY <1>1, <1>2, Parity DEF NextSeq, Partitions, Ota0, Ota1, Slots
  <1>3. CASE m # 0
    <2>1. m \in Nat \ {0} /\ m + 1 \in Nat \ {0}
      BY <1>1, <1>3
    <2> DEFINE a == PartitionOf(m) b == PartitionOf(m + 1) c == PartitionOf(m + 2)
    <2>2. a \in Partitions /\ b = Other(a) /\ c = a
      BY <2>1, Parity
    <2>3. NextSeq(s, p) = IF b = p THEN m + 1 ELSE m + 2
      BY <1>3 DEF NextSeq
    <2>4. b # p => a = p
      BY <2>2 DEF Partitions, Ota0, Ota1, Other
    <2>5. PartitionOf(NextSeq(s, p)) = p
      BY <2>2, <2>3, <2>4
    <2> HIDE DEF m
    <2> QED BY <1>1, <2>3, <2>5 DEF Slots
  <1> QED BY <1>2, <1>3

(* The number the other slot is seeded with stands for the other partition *)
(* and is lower, unless otadata is empty and p is Ota0.                    *)
LEMMA SeedSeqFits ==
    ASSUME NEW s \in [Slots -> Nat], NEW p \in Partitions, s[Other(p)] = 0,
           \A i \in Slots : s[i] = 0 \/ PartitionOf(s[i]) = i
    PROVE  /\ SeedSeq(s, p) \in Nat \ {0}
           /\ PartitionOf(SeedSeq(s, p)) = Other(p)
           /\ ~(NoneValid(s) /\ p = Ota0) => SeedSeq(s, p) < NextSeq(s, p)
  <1> DEFINE m == MaxSeq(s)
  <1>1. m \in Nat /\ m = s[p] /\ (NoneValid(s) <=> m = 0)
    BY MaxSeqIsMax DEF Slots, Partitions, Ota0, Ota1, Other
  <1>2. CASE m = 0
    BY <1>1, <1>2, Parity DEF SeedSeq, NextSeq, Partitions, Ota0, Ota1, Other
  <1>3. CASE m # 0
    <2>1. m \in Nat \ {0} /\ PartitionOf(m) = p
      BY <1>1, <1>3 DEF Slots, Partitions, Ota0, Ota1
    <2>2. PartitionOf(m + 1) = Other(p) /\ Other(p) # p
      BY <2>1, Parity, OtherPartition
    <2>3. NextSeq(s, p) = m + 2
      BY <1>3, <2>2 DEF NextSeq
    <2>4. SeedSeq(s, p) = NextSeq(s, p) - 1
      BY <1>3 DEF SeedSeq
    <2> HIDE DEF m
    <2> QED BY <1>1, <2>1, <2>2, <2>3, <2>4
  <1> QED BY <1>2, <1>3

(* The operations of set_boot_partition are typed and each stands for the  *)
(* partition whose slot it writes.                                         *)
Stands(ops) == \A k \in DOMAIN ops : ops[k].seq = 0 \/ PartitionOf(ops[k].seq) = ops[k].slot
FlashOps == [slot : Slots, seq : Nat]
LEMMA SetBootOpsFit ==
    ASSUME NEW s \in [Slots -> Nat], NEW p \in Partitions,
           \A i \in Slots : s[i] = 0 \/ PartitionOf(s[i]) = i
    PROVE  SetBootOps(s, p) \in Seq(FlashOps) /\ Stands(SetBootOps(s, p))
  <1> DEFINE n == NextSeq(s, p) d == SeedSeq(s, p) o == Other(p)
  <1>1. n \in Nat \ {0} /\ PartitionOf(n) = p
    BY NextSeqFits
  <1>2. o \in Slots /\ p \in Slots
    BY OtherPartition DEF Slots, Partitions, Ota0, Ota1
  <1>3. CASE s[o] # 0
    <2>1. SetBootOps(s, p) = <<FlashOp(p, 0), FlashOp(p, n)>>
      BY <1>3 DEF SetBootOps
    <2>2. FlashOp(p, 0) \in FlashOps /\ FlashOp(p, n) \in FlashOps
      BY <1>1, <1>2 DEF FlashOp, FlashOps
    <2> HIDE DEF n
    <2> QED BY <1>1, <2>1, <2>2 DEF FlashOp, Stands
  <1>4. CASE s[o] = 0
    <2>1. d \in Nat \ {0} /\ PartitionOf(d) = o
      BY <1>4, SeedSeqFits
    <2>2. SetBootOps(s, p) = <<FlashOp(p, 0), FlashOp(p, n), FlashOp(o, 0), FlashOp(o, d)>>
      BY <1>4 DEF SetBootOps
    <2>3. /\ FlashOp(p, 0) \in FlashOps /\ FlashOp(p, n) \in FlashOps
          /\ FlashOp(o, 0) \in FlashOps /\ FlashOp(o, d) \in FlashOps
      BY <1>1, <1>2, <2>1 DEF FlashOp, FlashOps
    <2> HIDE DEF n, d, o
    <2> QED BY <1>1, <2>1, <2>2, <2>3 DEF FlashOp, Stands
  <1> QED BY <1>3, <1>4

-----------------------------------------------------------------------------
(* Facts about the variables that the steps share.                         *)

(* What the type invariant and OtherPartition say of running and Target. *)
LEMMA RunningAndTarget ==
    ASSUME TypeOK
    PROVE  /\ running \in Partitions /\ Target \in Partitions
           /\ Target = Other(running) /\ running = Other(Target) /\ Target # running
           /\ Slots = {running, Target}
           /\ slots[running] \in Nat /\ slots[Target] \in Nat
           /\ NoneValid(slots) <=> slots[running] = 0 /\ slots[Target] = 0
  BY DEF TypeOK, Target, Other, Partitions, Slots, Ota0, Ota1, NoneValid

(* A roll back writes typed operations. *)
LEMMA RollBackFits ==
    ASSUME TypeOK, SlotsStandForPartitions, RollBack
    PROVE  todo' \in Seq(FlashOps) /\ Stands(todo')
  BY SetBootOpsFit DEF TypeOK, SlotsStandForPartitions, RollBack

(* The tails of the short sequences of a plan. *)
LEMMA PlanTails ==
    /\ \A a : Head(<<a>>) = a /\ Tail(<<a>>) = <<>>
    /\ \A a, b : Head(<<a, b>>) = a /\ Tail(<<a, b>>) = <<b>>
    /\ \A a, b, c : Head(<<a, b, c>>) = a /\ Tail(<<a, b, c>>) = <<b, c>>
    /\ \A a, b, c, d : Head(<<a, b, c, d>>) = a /\ Tail(<<a, b, c, d>>) = <<b, c, d>>
  OBVIOUS

(* A tail of typed operations that stand for their partitions is the same. *)
LEMMA TailFits ==
    ASSUME NEW ops \in Seq(FlashOps), Stands(ops), ops # <<>>
    PROVE  /\ Head(ops) \in FlashOps /\ Tail(ops) \in Seq(FlashOps) /\ Stands(Tail(ops))
           /\ Head(ops).seq = 0 \/ PartitionOf(Head(ops).seq) = Head(ops).slot
  BY DEF Stands

(* mark_valid is only reached when the running slot is invalid and the     *)
(* other one is not; it then writes the running slot.                      *)
LEMMA MarkValidFits ==
    ASSUME TypeOK, SlotsStandForPartitions, NeedsValidation(slots, running)
    PROVE  /\ slots[running] = 0 /\ slots[Target] # 0
           /\ MarkValidOps(slots, running)
                = <<FlashOp(running, 0), FlashOp(running, NextSeq(slots, running))>>
           /\ MarkValidOps(slots, running) \in Seq(FlashOps)
           /\ Stands(MarkValidOps(slots, running))
  <1>1. slots[running] = 0 /\ slots[Target] # 0
    BY RunningAndTarget DEF NeedsValidation, RunningEntryCorrect, SlotsStandForPartitions
  <1>2. MarkValidOps(slots, running) = SetBootOps(slots, running)
    BY <1>1, RunningAndTarget DEF MarkValidOps, RunningEntryCorrect
  <1>3. SetBootOps(slots, running)
          = <<FlashOp(running, 0), FlashOp(running, NextSeq(slots, running))>>
    BY <1>1, RunningAndTarget DEF SetBootOps
  <1> QED BY <1>1, <1>2, <1>3, SetBootOpsFit DEF TypeOK, SlotsStandForPartitions

(* The partition detect_running_partition names has the newest entry. *)
LEMMA DetectedIsNewest ==
    ASSUME NEW s \in [Slots -> Nat],
           \A i \in Slots : s[i] = 0 \/ PartitionOf(s[i]) = i
    PROVE  LET r == DetectRunning(s)
           IN  /\ r \in Partitions
               /\ NoneValid(s) => r = Ota0
               /\ s[r] # 0 => s[r] > s[Other(r)]
               /\ ~NoneValid(s) => s[r] # 0
  <1> DEFINE m == MaxSeq(s) r == DetectRunning(s)
  <1>1. m \in Nat /\ (NoneValid(s) <=> m = 0) /\ \A i \in Slots : s[i] <= m
    BY MaxSeqIsMax
  <1>2. CASE m = 0
    BY <1>1, <1>2 DEF DetectRunning, Partitions, Slots, Ota0, Ota1, Other, NoneValid
  <1>3. CASE m # 0
    <2>1. PICK i \in Slots : s[i] = m
      BY MaxSeqIsMax
    <2>2. PartitionOf(m) = i /\ r = i
      BY <1>3, <2>1 DEF DetectRunning
    <2>3. i \in Partitions /\ Other(i) \in Slots /\ Other(i) # i
      BY <2>1 DEF Slots, Partitions, Ota0, Ota1, Other
    <2>4. s[Other(i)] # m
      BY <1>3, <2>2, <2>3
    <2> QED BY <1>1, <1>3, <2>1, <2>2, <2>3, <2>4
  <1> QED BY <1>2, <1>3

-----------------------------------------------------------------------------
(* One lemma per group of actions.                                         *)

(* Before the first boot otadata is empty and nothing is planned. *)
LEMMA InitFits == Init => IInv
  <1> SUFFICES ASSUME Init PROVE IInv
    OBVIOUS
  <1>1. slots \in [Slots -> Nat] /\ part \in [Partitions -> Images \cup {NoImage}]
    BY DEF Init
  <1>2. running \in Partitions /\ booted \in Partitions \cup {Factory} /\ pc \in Locations
    BY DEF Init, Partitions, Locations
  <1>3. updates \in 0 .. MaxUpdates /\ faults \in 0 .. MaxFaults
    BY BoundAssumption DEF Init
  <1>4. /\ url \in Urls \cup {NoUrl} /\ received \in Images \cup {NoImage}
        /\ refused \subseteq Partitions /\ everValid \in BOOLEAN
    BY DEF Init
  <1>6. todo \in Seq([slot : Slots, seq : Nat])
    BY DEF Init
  <1>5. TypeOK
    BY <1>1, <1>2, <1>3, <1>4, <1>6 DEF TypeOK
  <1> QED BY <1>5 DEF Init, IInv, SlotsStandForPartitions, TodoStandsForPartitions,
             QuietAtRest, RunningIsNewest, FinalizePlan, ValidatePlan, Rest

(* create_ota *)
LEMMA BootFits ==
    ASSUME IInv, Boot
    PROVE  IInv'
  <1>1. slots \in [Slots -> Nat] /\ \A i \in Slots : slots[i] = 0 \/ PartitionOf(slots[i]) = i
    BY DEF IInv, TypeOK, SlotsStandForPartitions
  <1>2. running' \in Partitions /\ (NoneValid(slots) => running' = Ota0)
          /\ (slots[running'] # 0 => slots[running'] > slots[Other(running')])
    BY <1>1, DetectedIsNewest DEF Boot
  <1>3. booted' \in Partitions \cup {Factory}
    <2>1. Selected(slots) \in Partitions \cup {Factory}
      BY <1>1, MaxSeqIsMax, Parity DEF Selected
    <2> QED BY <2>1 DEF Boot, Boots, Partitions
  <1>4. TypeOK'
    BY <1>2, <1>3 DEF IInv, TypeOK, Boot, Locations
  <1>5. RunningIsNewest'
    BY <1>2 DEF Boot, RunningIsNewest, Target, NoneValid
  <1> QED BY <1>4, <1>5 DEF IInv, Boot, SlotsStandForPartitions, TodoStandsForPartitions,
             QuietAtRest, Rest, FinalizePlan, ValidatePlan

(* Steps that leave otadata and its plan alone and stay at rest. *)
LEMMA RestFits ==
    ASSUME IInv, \/ Crash \/ ErasedUnderfoot \/ DownloadCompletes \/ DownloadTruncated
                 \/ \E u \in Urls : Begin(u)
    PROVE  IInv'
  <1>1. /\ UNCHANGED <<slots, todo, running, booted, faults, everValid>>
        /\ pc \in Rest /\ pc' \in Rest \cup {"reset"}
    BY DEF Crash, ErasedUnderfoot, DownloadCompletes, DownloadTruncated, Begin, Rest, history
  <1>2. TypeOK'
    <2>1. pc' \in Locations
      BY <1>1 DEF Rest, Locations
    <2>2. part' \in [Partitions -> Images \cup {NoImage}] /\ received' \in Images \cup {NoImage}
      <3>1. /\ part \in [Partitions -> Images \cup {NoImage}]
            /\ received \in Images \cup {NoImage} /\ url.image \in Images \cup {NoImage}
        BY DEF IInv, TypeOK, Urls, NoUrl
      <3>2. received' = received \/ received' = url.image
        BY DEF Crash, ErasedUnderfoot, DownloadCompletes, DownloadTruncated, Begin
      <3>3. part' = part \/ \E content \in {NoImage, url.image} :
                                  part' = [part EXCEPT ![Target] = content]
        BY DEF Crash, ErasedUnderfoot, DownloadCompletes, DownloadTruncated, Begin
      <3> QED BY <3>1, <3>2, <3>3
    <2>3. url' \in Urls \cup {NoUrl} /\ updates' \in 0 .. MaxUpdates
      BY BoundAssumption
         DEF IInv, TypeOK, Crash, ErasedUnderfoot, DownloadCompletes, DownloadTruncated, Begin
    <2>4. refused' \subseteq Partitions
      BY DEF IInv, TypeOK, Crash, ErasedUnderfoot, DownloadCompletes, DownloadTruncated, Begin,
             history
    <2> QED BY <1>1, <2>1, <2>2, <2>3, <2>4 DEF IInv, TypeOK
  <1>3. SlotsStandForPartitions' /\ TodoStandsForPartitions'
    BY <1>1 DEF IInv, SlotsStandForPartitions, TodoStandsForPartitions
  <1>4. QuietAtRest' /\ RunningIsNewest'
    BY <1>1 DEF IInv, QuietAtRest, RunningIsNewest, NoneValid, Target
  <1>5. FinalizePlan' /\ ValidatePlan'
    BY <1>1 DEF Rest, FinalizePlan, ValidatePlan
  <1> QED BY <1>2, <1>3, <1>4, <1>5 DEF IInv

(* Steps that start a roll back. *)
LEMMA RollBackStepFits ==
    ASSUME IInv, RequestFails \/ DownloadFails \/ Refuse \/ FinalizeFails
    PROVE  IInv'
  <1>1. /\ RollBack
        /\ UNCHANGED <<slots, booted, running, url, received, faults, everValid>>
    BY DEF RequestFails, DownloadFails, Refuse, FinalizeFails, history
  <1>2. todo' \in Seq(FlashOps) /\ Stands(todo')
    BY <1>1, RollBackFits DEF IInv
  <1>3. updates' \in 0 .. MaxUpdates /\ refused' \subseteq Partitions
    BY BoundAssumption, RunningAndTarget
       DEF IInv, TypeOK, RequestFails, DownloadFails, Refuse, FinalizeFails, history
  <1>4. part' \in [Partitions -> Images \cup {NoImage}]
    <2>1. part \in [Partitions -> Images \cup {NoImage}] /\ url.image \in Images \cup {NoImage}
      BY DEF IInv, TypeOK, Urls, NoUrl
    <2>2. part' = part \/ \E content \in {NoImage, url.image} :
                                part' = [part EXCEPT ![Target] = content]
      BY DEF RequestFails, DownloadFails, Refuse, FinalizeFails
    <2> QED BY <2>1, <2>2
  <1>5. TypeOK'
    BY <1>1, <1>2, <1>3, <1>4 DEF IInv, TypeOK, RollBack, Locations, FlashOps
  <1> QED BY <1>1, <1>2, <1>5
          DEF IInv, RollBack, Stands, SlotsStandForPartitions, TodoStandsForPartitions,
              QuietAtRest, RunningIsNewest, FinalizePlan, ValidatePlan, Rest

(* Connect: the boot validation, if it is asked for. *)
LEMMA ConnectFits ==
    ASSUME IInv, Connect
    PROVE  IInv'
  <1> DEFINE n == NextSeq(slots, running)
  <1>1. TypeOK /\ SlotsStandForPartitions
    BY DEF IInv
  <1>2. n \in Nat \ {0} /\ n > slots[Target]
    BY <1>1, NextSeqFits, RunningAndTarget DEF TypeOK
  <1>3. CASE NeedsValidation(slots, running)
    <2>1. /\ pc' = "validating" /\ slots' = slots /\ running' = running
          /\ slots[running] = 0 /\ slots[Target] # 0
          /\ todo' = <<FlashOp(running, 0), FlashOp(running, n)>>
          /\ todo' \in Seq(FlashOps) /\ Stands(todo')
      BY <1>1, <1>3, MarkValidFits DEF Connect
    <2>2. TypeOK'
      BY <2>1 DEF history, IInv, TypeOK, Connect, Locations, FlashOps
    <2>3. ValidatePlan'
      <3> HIDE DEF n
      <3> QED BY <1>2, <2>1 DEF ValidatePlan, Target
    <2> QED BY <2>1, <2>2, <2>3
            DEF IInv, Stands, SlotsStandForPartitions, TodoStandsForPartitions, QuietAtRest,
                RunningIsNewest, FinalizePlan, Rest
  <1>4. CASE ~NeedsValidation(slots, running)
    <2>1. pc' = "idle" /\ todo' = <<>> /\ pc = "booting" /\ slots' = slots /\ running' = running
      BY <1>4 DEF Connect
    <2>2. TypeOK'
      BY <1>4, <2>1 DEF history, IInv, TypeOK, Connect, Locations
    <2> QED BY <2>1, <2>2
            DEF IInv, SlotsStandForPartitions, TodoStandsForPartitions, QuietAtRest,
                RunningIsNewest, FinalizePlan, ValidatePlan, Rest, Target, NoneValid
  <1> QED BY <1>3, <1>4

(* finalize: one of the two plans begins. *)
LEMMA FinalizeFits ==
    ASSUME IInv, Finalize
    PROVE  IInv'
  <1>1. TypeOK /\ SlotsStandForPartitions /\ RunningIsNewest /\ pc = "verify"
    BY DEF IInv, Finalize
  <1>2. /\ pc' = "finalizing" /\ slots' = slots /\ running' = running
        /\ todo' = SetBootOps(slots, Target)
    BY DEF Finalize
  <1>3. todo' \in Seq(FlashOps) /\ Stands(todo')
    BY <1>1, <1>2, RunningAndTarget, SetBootOpsFit DEF TypeOK, SlotsStandForPartitions
  <1>4. TypeOK'
    BY <1>2, <1>3, <1>1, RunningAndTarget DEF history, TypeOK, Finalize, Locations, FlashOps
  <1>5. PICK n \in Nat \ {0} : n = NextSeq(slots, Target) /\ n > slots[running]
    BY <1>1, NextSeqFits, RunningAndTarget DEF TypeOK
  <1>6. FinalizePlan'
    <2>1. CASE slots[running] # 0
      <3>1. todo' = <<FlashOp(Target, 0), FlashOp(Target, n)>>
        BY <1>1, <1>2, <1>5, <2>1, RunningAndTarget DEF SetBootOps
      <3>2. slots[running] > slots[Target]
        BY <1>1, <2>1 DEF RunningIsNewest, Rest
      <3>3. PlanOf(n, 1)'
        BY <1>2, <1>5, <3>1, <3>2 DEF PlanOf, Target
      <3> QED BY <1>5, <3>3 DEF FinalizePlan
    <2>2. CASE slots[running] = 0
      <3>1. ~(NoneValid(slots) /\ Target = Ota0)
        BY <1>1, RunningAndTarget DEF RunningIsNewest, Rest
      <3>2. PICK d \in Nat \ {0} : d = SeedSeq(slots, Target) /\ d < n
        BY <1>1, <1>5, <2>2, <3>1, RunningAndTarget, SeedSeqFits DEF TypeOK, SlotsStandForPartitions
      <3>3. todo' = <<FlashOp(Target, 0), FlashOp(Target, n),
                      FlashOp(running, 0), FlashOp(running, d)>>
        BY <1>1, <1>2, <1>5, <2>2, <3>2, RunningAndTarget DEF SetBootOps
      <3>4. PlanOf(n, d)'
        BY <1>2, <1>5, <2>2, <3>2, <3>3 DEF PlanOf, Target
      <3> QED BY <1>5, <3>2, <3>4 DEF FinalizePlan
    <2> QED BY <2>1, <2>2
  <1> QED BY <1>1, <1>2, <1>3, <1>4, <1>6
          DEF IInv, Stands, SlotsStandForPartitions, TodoStandsForPartitions, QuietAtRest,
              RunningIsNewest, ValidatePlan, Rest

(* One flash operation, in each of the places of a plan. *)
LEMMA FlashStepFits ==
    ASSUME IInv, FlashStep
    PROVE  IInv'
  <1> DEFINE op == Head(todo)
  <1>1. TypeOK /\ SlotsStandForPartitions /\ todo \in Seq(FlashOps) /\ Stands(todo) /\ todo # <<>>
    BY DEF IInv, TypeOK, FlashOps, TodoStandsForPartitions, Stands, FlashStep
  <1>2. /\ op \in FlashOps /\ Tail(todo) \in Seq(FlashOps) /\ Stands(Tail(todo))
        /\ op.seq = 0 \/ PartitionOf(op.seq) = op.slot
    BY <1>1, TailFits
  <1>3. /\ slots' = [slots EXCEPT ![op.slot] = op.seq] /\ todo' = Tail(todo)
        /\ pc' = pc /\ running' = running
    BY DEF FlashStep
  <1>4. op.slot \in Slots /\ op.seq \in Nat
    BY <1>2 DEF FlashOps
  <1>5. pc \notin Rest \cup {"reset"}
    BY <1>1 DEF IInv, QuietAtRest
  <1>6. TypeOK'
    BY <1>1, <1>2, <1>3, <1>4 DEF TypeOK, FlashStep, FlashOps, history
  <1>7. SlotsStandForPartitions'
    BY <1>1, <1>2, <1>3, <1>4 DEF TypeOK, SlotsStandForPartitions
  <1>8. TodoStandsForPartitions'
    BY <1>2, <1>3 DEF TodoStandsForPartitions, Stands
  <1>9. FinalizePlan'
    <2> SUFFICES ASSUME pc = "finalizing"
                 PROVE  \E new, seed \in Nat \ {0} : PlanOf(new, seed)'
      BY <1>3 DEF FinalizePlan
    <2>1. PICK new, seed \in Nat \ {0} : PlanOf(new, seed)
      BY DEF IInv, FinalizePlan
    <2>2. /\ running # Target /\ running \in Slots /\ Target \in Slots
          /\ Slots = {running, Target} /\ Target' = Target
          /\ slots \in [Slots -> Nat]
      BY <1>1, <1>3, RunningAndTarget DEF TypeOK, Target
    <2>3. PlanOf(new, seed)'
      <3>1. CASE todo = <<FlashOp(Target, 0), FlashOp(Target, new)>>
        <4>1. op = FlashOp(Target, 0) /\ todo' = <<FlashOp(Target, new)>>
          BY <1>3, <3>1, PlanTails
        <4>2. new > slots[running]
          BY <2>1, <2>2, <3>1 DEF PlanOf, FlashOp
        <4>3. slots'[Target] = 0 /\ slots'[running] = slots[running]
          BY <1>3, <2>2, <4>1 DEF FlashOp
        <4> QED BY <1>3, <2>2, <4>1, <4>2, <4>3 DEF PlanOf
      <3>2. CASE todo = <<FlashOp(Target, new)>>
        <4>1. op = FlashOp(Target, new) /\ todo' = <<>>
          BY <1>3, <3>2, PlanTails
        <4>2. new > slots[running]
          BY <2>1, <2>2, <3>2 DEF PlanOf, FlashOp
        <4>3. slots'[Target] = new /\ slots'[running] = slots[running]
          BY <1>3, <2>2, <4>1 DEF FlashOp
        <4> QED BY <1>3, <2>2, <4>1, <4>2, <4>3 DEF PlanOf
      <3>3. CASE todo = <<FlashOp(Target, 0), FlashOp(Target, new),
                          FlashOp(running, 0), FlashOp(running, seed)>>
        <4>1. /\ op = FlashOp(Target, 0)
              /\ todo' = <<FlashOp(Target, new), FlashOp(running, 0), FlashOp(running, seed)>>
          BY <1>3, <3>3, PlanTails
        <4>2. new > seed /\ slots[running] = 0
          BY <2>1, <3>3 DEF PlanOf
        <4>3. slots'[running] = 0 /\ slots'[Target] = 0
          BY <1>3, <2>2, <4>1, <4>2 DEF FlashOp
        <4>4. NoneValid(slots')
          BY <2>2, <4>3 DEF NoneValid, Slots
        <4> QED BY <1>3, <2>2, <4>1, <4>2, <4>4 DEF PlanOf
      <3>4. CASE todo = <<FlashOp(Target, new), FlashOp(running, 0), FlashOp(running, seed)>>
        <4>1. op = FlashOp(Target, new) /\ todo' = <<FlashOp(running, 0), FlashOp(running, seed)>>
          BY <1>3, <3>4, PlanTails
        <4>2. new > seed /\ slots[running] = 0
          BY <1>1, <2>1, <3>4, RunningAndTarget DEF PlanOf
        <4>3. slots'[Target] = new /\ slots'[running] = slots[running]
          BY <1>3, <2>2, <4>1 DEF FlashOp
        <4> QED BY <1>3, <2>2, <4>1, <4>2, <4>3 DEF PlanOf
      <3>5. CASE todo = <<FlashOp(running, 0), FlashOp(running, seed)>>
        <4>1. op = FlashOp(running, 0) /\ todo' = <<FlashOp(running, seed)>>
          BY <1>3, <3>5, PlanTails
        <4>2. slots[Target] > seed
          BY <2>1, <2>2, <3>5 DEF PlanOf, FlashOp
        <4>3. slots'[Target] = slots[Target] /\ slots'[running] = 0
          BY <1>3, <2>2, <4>1 DEF FlashOp
        <4> QED BY <1>3, <2>2, <4>1, <4>2, <4>3 DEF PlanOf
      <3>6. CASE todo = <<FlashOp(running, seed)>>
        <4>1. op = FlashOp(running, seed) /\ todo' = <<>>
          BY <1>3, <3>6, PlanTails
        <4>2. slots[Target] > seed
          BY <2>1, <2>2, <3>6 DEF PlanOf, FlashOp
        <4>3. slots'[Target] = slots[Target] /\ slots'[running] = seed
          BY <1>3, <2>2, <4>1 DEF FlashOp
        <4> QED BY <1>3, <2>2, <4>1, <4>2, <4>3 DEF PlanOf
      <3> QED BY <1>1, <2>1, <3>1, <3>2, <3>3, <3>4, <3>5, <3>6 DEF PlanOf
    <2> QED BY <2>1, <2>3
  <1>10. ValidatePlan'
    <2> SUFFICES ASSUME pc = "validating" PROVE ValidatePlan'
      BY <1>3 DEF ValidatePlan
    <2>1. /\ running # Target /\ running \in Slots /\ Target \in Slots
          /\ Target' = Target /\ slots \in [Slots -> Nat]
      BY <1>1, <1>3, RunningAndTarget DEF TypeOK, Target
    <2>2. PICK new \in Nat \ {0} :
              /\ new > slots[Target] /\ slots[Target] # 0 /\ slots[running] = 0
              /\ \/ todo = <<FlashOp(running, new)>>
                 \/ todo = <<FlashOp(running, 0), FlashOp(running, new)>>
      BY <1>1 DEF IInv, ValidatePlan
    <2>3. CASE todo = <<FlashOp(running, new)>>
      <3>1. op = FlashOp(running, new) /\ todo' = <<>>
        BY <1>3, <2>3, PlanTails
      <3> QED BY <1>3, <2>1, <2>2, <3>1 DEF ValidatePlan, FlashOp
    <2>4. CASE todo = <<FlashOp(running, 0), FlashOp(running, new)>>
      <3>1. op = FlashOp(running, 0) /\ todo' = <<FlashOp(running, new)>>
        BY <1>3, <2>4, PlanTails
      <3>2. slots'[running] = 0 /\ slots'[Target] = slots[Target]
        BY <1>3, <2>1, <3>1 DEF FlashOp
      <3> QED BY <1>3, <2>1, <2>2, <3>1, <3>2 DEF ValidatePlan
    <2> QED BY <2>2, <2>3, <2>4
  <1> QED BY <1>3, <1>5, <1>6, <1>7, <1>8, <1>9, <1>10
          DEF IInv, QuietAtRest, RunningIsNewest

(* The end of set_boot_partition. *)
LEMMA FlashDoneFits ==
    ASSUME IInv, FlashDone
    PROVE  IInv'
  <1>1. /\ UNCHANGED <<slots, running, todo>> /\ todo = <<>>
        /\ pc' \in {"idle", "reset"} /\ (pc' = "idle" => pc = "validating")
    BY DEF FlashDone, AfterSetBoot
  <1>2. TypeOK'
    BY <1>1 DEF IInv, TypeOK, FlashDone, Locations, history
  <1>3. RunningIsNewest'
    BY <1>1, RunningAndTarget DEF IInv, RunningIsNewest, ValidatePlan, Rest, Target, NoneValid
  <1> QED BY <1>1, <1>2, <1>3
          DEF IInv, SlotsStandForPartitions, TodoStandsForPartitions, QuietAtRest,
              FinalizePlan, ValidatePlan

(* A power loss forgets the plan and leaves the slots as they are. *)
LEMMA PowerLossFits ==
    ASSUME IInv, PowerLoss
    PROVE  IInv'
  <1>1. UNCHANGED <<slots, running>> /\ todo' = <<>> /\ pc' = "reset"
    BY DEF PowerLoss
  <1>2. faults' \in 0 .. MaxFaults
    BY BoundAssumption DEF IInv, TypeOK, PowerLoss, Fault
  <1>3. TypeOK'
    BY <1>1, <1>2 DEF IInv, TypeOK, PowerLoss, Locations, history
  <1> QED BY <1>1, <1>3
          DEF IInv, SlotsStandForPartitions, TodoStandsForPartitions, QuietAtRest,
              RunningIsNewest, FinalizePlan, ValidatePlan, Rest

(* A failed flash operation: finalize rolls back, the others give up. *)
LEMMA FlashErrorFits ==
    ASSUME IInv, FlashError
    PROVE  IInv'
  <1>1. UNCHANGED <<slots, part, booted, running, url, received, updates, history>> /\ todo # <<>>
    BY DEF FlashError
  <1>2. faults' \in 0 .. MaxFaults
    BY BoundAssumption DEF IInv, TypeOK, FlashError, Fault
  <1>3. CASE pc = "finalizing"
    <2>1. RollBack
      BY <1>3 DEF FlashError
    <2>2. todo' \in Seq(FlashOps) /\ Stands(todo')
      BY <2>1, RollBackFits DEF IInv
    <2>3. TypeOK'
      BY <1>1, <1>2, <2>1, <2>2 DEF IInv, TypeOK, RollBack, Locations, FlashOps, history
    <2> QED BY <1>1, <2>1, <2>2, <2>3
            DEF IInv, RollBack, Stands, SlotsStandForPartitions, TodoStandsForPartitions,
                QuietAtRest, RunningIsNewest, FinalizePlan, ValidatePlan, Rest
  <1>4. CASE pc # "finalizing"
    <2>1. todo' = <<>> /\ pc' \in {"idle", "reset"} /\ (pc' = "idle" => pc # "rollback")
      BY <1>4 DEF FlashError
    <2>2. pc' = "idle" => pc = "validating"
      BY <1>1, <1>4, <2>1 DEF IInv, TypeOK, Locations, QuietAtRest, Rest
    <2>3. TypeOK'
      BY <1>1, <1>2, <2>1 DEF IInv, TypeOK, Locations, history
    <2>4. RunningIsNewest'
      BY <1>1, <2>1, <2>2, RunningAndTarget
         DEF IInv, RunningIsNewest, ValidatePlan, Rest, Target, NoneValid
    <2> QED BY <1>1, <2>1, <2>3, <2>4
            DEF IInv, SlotsStandForPartitions, TodoStandsForPartitions, QuietAtRest,
                FinalizePlan, ValidatePlan
  <1> QED BY <1>3, <1>4

(* The loss of one sector leaves the other entry, and the running one, if  *)
(* it is the one that is left, stays the newest.                           *)
LEMMA SectorLostFits ==
    ASSUME IInv, NEW i \in Slots, SectorLost(i)
    PROVE  IInv'
  <1>1. /\ slots' = [slots EXCEPT ![i] = 0] /\ slots[Other(i)] # 0
        /\ UNCHANGED <<running, todo, pc>> /\ pc \in {"reset", "booting", "idle"}
    BY DEF SectorLost
  <1>2. TypeOK
    BY DEF IInv
  <1>3. faults' \in 0 .. MaxFaults
    BY BoundAssumption DEF IInv, TypeOK, SectorLost, Fault
  <1>4. TypeOK'
    BY <1>1, <1>2, <1>3 DEF TypeOK, SectorLost, history
  <1>5. Other(i) \in Slots /\ Other(i) # i /\ slots'[Other(i)] # 0
    BY <1>1, <1>2 DEF TypeOK, Slots, Other
  <1>6. ~NoneValid(slots')
    BY <1>5 DEF NoneValid, Slots
  <1>7. RunningIsNewest'
    <2>1. slots'[running] \in {0, slots[running]} /\ slots'[Target] \in {0, slots[Target]}
      BY <1>1, <1>2, RunningAndTarget DEF TypeOK
    <2>2. Target' = Target
      BY <1>1 DEF Target
    <2> QED BY <1>1, <1>2, <1>6, <2>1, <2>2, RunningAndTarget DEF IInv, RunningIsNewest, Rest
  <1>8. SlotsStandForPartitions'
    BY <1>1, <1>2 DEF IInv, TypeOK, SlotsStandForPartitions
  <1> QED BY <1>1, <1>4, <1>7, <1>8
          DEF IInv, TodoStandsForPartitions, QuietAtRest, FinalizePlan, ValidatePlan

(* Every step keeps the invariant. *)
LEMMA NextFits ==
    ASSUME IInv, [Next]_vars
    PROVE  IInv'
  <1>1. CASE Next
    BY <1>1, BootFits, RestFits, RollBackStepFits, ConnectFits, FinalizeFits, FlashStepFits,
       FlashDoneFits, PowerLossFits, FlashErrorFits, SectorLostFits DEF Next, Progress
  <1>2. CASE UNCHANGED vars
    BY <1>2 DEF vars, history, IInv, TypeOK, SlotsStandForPartitions, TodoStandsForPartitions,
                QuietAtRest, RunningIsNewest, FinalizePlan, ValidatePlan, PlanOf, Target,
                NoneValid
  <1> QED BY <1>1, <1>2

(* The invariant holds in every state. *)
THEOREM PlanInvariant == Spec => []IInv
  <1> QED BY InitFits, NextFits, PTL DEF Spec

-----------------------------------------------------------------------------
(* The properties of the runs.                                             *)

(* Every state of an update is well typed. *)
THEOREM OtaTypeCorrect == Spec => []TypeOK
  <1>1. IInv => TypeOK
    BY DEF IInv
  <1> QED BY <1>1, PlanInvariant, PTL

(* A valid entry stands for the partition of its slot, after any sequence  *)
(* of updates, roll backs and faults (set_boot_partition).                 *)
THEOREM SlotsCorrect == Spec => []SlotsStandForPartitions
  <1>1. IInv => SlotsStandForPartitions
    BY DEF IInv
  <1> QED BY <1>1, PlanInvariant, PTL

(* When finalize is done, the new image is the one that is selected.       *)
THEOREM UpdateIsEffective == Spec => []UpdateTakesEffect
  <1>1. IInv => UpdateTakesEffect
    <2> SUFFICES ASSUME IInv, pc = "finalizing", todo = <<>>
                 PROVE  Selected(slots) = Target
      BY DEF UpdateTakesEffect
    <2>1. TypeOK /\ SlotsStandForPartitions
      BY DEF IInv
    <2>2. slots[Target] > slots[running]
      BY DEF IInv, FinalizePlan, PlanOf
    <2>3. MaxSeq(slots) = slots[Target] /\ ~NoneValid(slots)
      BY <2>1, <2>2, RunningAndTarget DEF MaxSeq, Slots, TypeOK, Target, Other, Partitions, Ota0, Ota1
    <2>4. PartitionOf(slots[Target]) = Target
      BY <2>1, <2>2, RunningAndTarget DEF SlotsStandForPartitions
    <2> QED BY <2>3, <2>4 DEF Selected
  <1> QED BY <1>1, PlanInvariant, PTL

(* The otadata sectors are sound in every reachable state, whatever        *)
(* updates, roll backs and faults have happened (set_boot_partition).      *)
THEOREM OtadataCorrect == Spec => []OtadataSound
  BY OtaTypeCorrect, SlotsCorrect, UpdateIsEffective, PTL DEF OtadataSound

(* Which partition is selected when one of the two entries is newer. *)
LEMMA NewerIsSelected ==
    ASSUME NEW s \in [Slots -> Nat], NEW p \in Partitions, s[p] > s[Other(p)],
           PartitionOf(s[p]) = p
    PROVE  Selected(s) = p
  <1>1. MaxSeq(s) = s[p] /\ ~NoneValid(s)
    BY DEF MaxSeq, NoneValid, Slots, Partitions, Ota0, Ota1, Other
  <1> QED BY <1>1 DEF Selected

(* The slots hold still while finalize runs, but for its own operations. *)
LEMMA FinalizingKeepsSlots ==
    ASSUME [Next]_vars, pc = "finalizing", ~FlashStep
    PROVE  slots' = slots
  BY DEF Next, Progress, Boot, Crash, Connect, ErasedUnderfoot, DownloadCompletes,
         DownloadTruncated, DownloadFails, Refuse, Finalize, FinalizeFails, FlashDone,
         RequestFails, Begin, PowerLoss, FlashError, SectorLost, vars

(* No operation of finalize makes the boot loader select a third thing. *)
LEMMA FinalizingSwitchesOnce ==
    ASSUME IInv, [Next]_vars, pc = "finalizing"
    PROVE  \/ Selected(slots') \in {Selected(slots), Target}
           \/ slots[running] = 0 /\ NoneValid(slots')
  <1> SUFFICES ASSUME FlashStep
               PROVE  \/ Selected(slots') \in {Selected(slots), Target}
                      \/ slots[running] = 0 /\ NoneValid(slots')
    BY FinalizingKeepsSlots
  <1> DEFINE op == Head(todo)
  <1>1. /\ TypeOK /\ SlotsStandForPartitions /\ todo # <<>>
        /\ slots' = [slots EXCEPT ![op.slot] = op.seq] /\ todo' = Tail(todo)
    BY DEF IInv, FlashStep
  <1>2. IInv'
    BY NextFits
  <1>3. slots' \in [Slots -> Nat] /\ \A i \in Slots : slots'[i] = 0 \/ PartitionOf(slots'[i]) = i
    BY <1>2 DEF IInv, TypeOK, SlotsStandForPartitions
  <1>4. PICK new, seed \in Nat \ {0} : PlanOf(new, seed)
    BY DEF IInv, FinalizePlan
  <1>5. /\ running \in Partitions /\ Target \in Partitions /\ running # Target
        /\ Other(Target) = running /\ Other(running) = Target /\ Slots = {running, Target}
        /\ slots \in [Slots -> Nat]
    BY <1>1, RunningAndTarget DEF TypeOK
  <1>6. slots'[Target] > slots'[running] => Selected(slots') = Target
    BY <1>3, <1>5, NewerIsSelected
  <1>7. CASE todo = <<FlashOp(Target, 0), FlashOp(Target, new)>>
    <2>1. slots'[Target] = 0 /\ slots'[running] = slots[running]
      BY <1>1, <1>5, <1>7, PlanTails DEF FlashOp
    <2>2. slots[running] > slots[Target]
      BY <1>4, <1>7 DEF PlanOf, FlashOp
    <2>3. slots[running] # 0
      BY <1>5, <2>2
    <2>4. PartitionOf(slots[running]) = running
      BY <1>1, <1>5, <2>3 DEF SlotsStandForPartitions
    <2>5. Selected(slots) = running
      BY <1>5, <2>2, <2>4, NewerIsSelected
    <2>6. Selected(slots') = running
      BY <1>3, <1>5, <2>1, <2>2, NewerIsSelected
    <2> QED BY <2>5, <2>6
  <1>8. CASE todo = <<FlashOp(Target, new)>>
    <2>1. slots'[Target] = new /\ slots'[running] = slots[running]
      BY <1>1, <1>5, <1>8, PlanTails DEF FlashOp
    <2>2. new > slots[running]
      BY <1>4, <1>5, <1>8 DEF PlanOf, FlashOp
    <2> QED BY <1>6, <2>1, <2>2
  <1>9. CASE todo = <<FlashOp(Target, 0), FlashOp(Target, new),
                      FlashOp(running, 0), FlashOp(running, seed)>>
    <2>1. slots'[Target] = 0 /\ slots'[running] = slots[running]
      BY <1>1, <1>5, <1>9, PlanTails DEF FlashOp
    <2>2. slots[running] = 0
      BY <1>4, <1>9 DEF PlanOf
    <2> QED BY <1>5, <2>1, <2>2 DEF NoneValid, Slots
  <1>10. CASE todo = <<FlashOp(Target, new), FlashOp(running, 0), FlashOp(running, seed)>>
    <2>1. slots'[Target] = new /\ slots'[running] = slots[running]
      BY <1>1, <1>5, <1>10, PlanTails DEF FlashOp
    <2>2. slots[running] = 0
      BY <1>1, <1>4, <1>10, RunningAndTarget DEF PlanOf
    <2> QED BY <1>6, <2>1, <2>2
  <1>11. CASE todo = <<FlashOp(running, 0), FlashOp(running, seed)>>
    <2>1. slots'[Target] = slots[Target] /\ slots'[running] = 0
      BY <1>1, <1>5, <1>11, PlanTails DEF FlashOp
    <2>2. slots[Target] > seed
      BY <1>4, <1>5, <1>11 DEF PlanOf, FlashOp
    <2> QED BY <1>5, <1>6, <2>1, <2>2
  <1>12. CASE todo = <<FlashOp(running, seed)>>
    <2>1. slots'[Target] = slots[Target] /\ slots'[running] = seed
      BY <1>1, <1>5, <1>12, PlanTails DEF FlashOp
    <2>2. slots[Target] > seed
      BY <1>4, <1>5, <1>12 DEF PlanOf, FlashOp
    <2> QED BY <1>6, <2>1, <2>2
  <1> QED BY <1>1, <1>4, <1>7, <1>8, <1>9, <1>10, <1>11, <1>12 DEF PlanOf

(* A power loss during finalize finds the old selection or the new one.    *)
THEOREM UpdateIsAtomic == Spec => UpdateSwitchesOnce
  <1> QED BY FinalizingSwitchesOnce, PlanInvariant, PTL DEF Spec, UpdateSwitchesOnce

(* The boot validation is never asked for at boot: otadata always confirms *)
(* the partition that was detected from it (create_ota, needs_validation). *)
THEOREM NoValidationAtBoot ==
    Spec => [][Boot => ~NeedsValidation(slots', running')]_vars
  <1>1. ASSUME IInv, [Next]_vars PROVE Boot => ~NeedsValidation(slots', running')
    <2> SUFFICES ASSUME Boot, ~NoneValid(slots)
                 PROVE  RunningEntryCorrect(slots, DetectRunning(slots))
      BY DEF NeedsValidation, Boot
    <2>1. slots \in [Slots -> Nat] /\ \A i \in Slots : slots[i] = 0 \/ PartitionOf(slots[i]) = i
      BY <1>1 DEF IInv, TypeOK, SlotsStandForPartitions
    <2>2. DetectRunning(slots) \in Partitions /\ slots[DetectRunning(slots)] # 0
      BY <2>1, DetectedIsNewest
    <2> QED BY <2>1, <2>2 DEF RunningEntryCorrect, Slots, Partitions, Ota0, Ota1
  <1> QED BY <1>1, PlanInvariant, PTL DEF Spec

-----------------------------------------------------------------------------
(* Faults.                                                                 *)

(* What the firmware was booted from.  Since the last boot the partition   *)
(* it calls running has kept its image, if that is what was booted, and    *)
(* lacks one, if the boot loader had to fall back to the factory image.    *)
BootedFits ==
    /\ booted \in Partitions => everValid
    /\ pc \in Rest \cup {"validating"} =>
          /\ booted = running => part[running] \in Images
          /\ booted = Factory /\ ~NoneValid(slots) => part[running] \notin Images

(* The boot loader starts a complete image or the factory one. *)
LEMMA BootsBootable ==
    ASSUME NEW s \in [Slots -> Nat], NEW images
    PROVE  /\ Boots(s, {Factory} \cup images) \in images \cup {Factory}
           /\ Boots(s, {Factory} \cup images) \in Partitions => ~NoneValid(s)
           /\ Selected(s) \in images => Boots(s, {Factory} \cup images) = Selected(s)
           /\ Boots(s, {Factory} \cup images) = Factory /\ Selected(s) # Factory
                => Selected(s) \notin images
  BY DEF Boots, Selected, Factory, Partitions, Ota0, Ota1

(* The boot loader selects the partition create_ota detects, if there is   *)
(* any valid entry.                                                        *)
LEMMA SelectedIsDetected ==
    ASSUME NEW s \in [Slots -> Nat], ~NoneValid(s)
    PROVE  Selected(s) = DetectRunning(s) /\ Selected(s) \in Partitions
  <1>1. MaxSeq(s) \in Nat \ {0}
    BY MaxSeqIsMax
  <1> QED BY <1>1, Parity DEF Selected, DetectRunning

(* Before the first boot nothing was booted. *)
LEMMA InitBooted == Init => BootedFits
  BY DEF Init, BootedFits, Rest, Factory, Partitions, Ota0, Ota1

(* A boot establishes BootedFits. *)
LEMMA BootBooted ==
    ASSUME IInv, BootedFits, Boot
    PROVE  BootedFits'
  <1> DEFINE images == {p \in Partitions : part[p] \in Images}
  <1>1. /\ slots \in [Slots -> Nat] /\ slots' = slots /\ part' = part
        /\ booted' = Boots(slots, {Factory} \cup images) /\ running' = DetectRunning(slots)
        /\ everValid' = (everValid \/ ~NoneValid(slots))
    BY DEF IInv, TypeOK, Boot, Bootable
  <1>2. /\ booted' \in images \cup {Factory}
        /\ booted' \in Partitions => ~NoneValid(slots)
        /\ booted' = Factory /\ Selected(slots) # Factory => Selected(slots) \notin images
    BY <1>1, BootsBootable
  <1>3. ~NoneValid(slots) => Selected(slots) = running' /\ running' \in Partitions
    BY <1>1, SelectedIsDetected
  <1>4. Factory \notin Partitions
    BY DEF Factory, Partitions, Ota0, Ota1
  <1>5. running' \in Partitions
    BY BootFits DEF IInv, TypeOK
  <1>6. booted' \in Partitions => everValid'
    BY <1>1, <1>2
  <1>7. booted' = running' => part'[running'] \in Images
    BY <1>1, <1>2, <1>4, <1>5
  <1>8. booted' = Factory /\ ~NoneValid(slots') => part'[running'] \notin Images
    BY <1>1, <1>2, <1>3, <1>4
  <1> QED BY <1>6, <1>7, <1>8 DEF BootedFits

(* Every step keeps BootedFits: an update only writes the other partition. *)
LEMMA NextBooted ==
    ASSUME IInv, BootedFits, [Next]_vars
    PROVE  BootedFits'
  <1>0. TypeOK /\ running # Target /\ running \in Partitions /\ Target \in Partitions
    BY RunningAndTarget DEF IInv
  <1>1. CASE Boot
    BY <1>1, BootBooted
  <1>2. CASE Crash \/ ErasedUnderfoot \/ PowerLoss
    BY <1>2 DEF Crash, ErasedUnderfoot, PowerLoss, history, BootedFits, Rest
  <1>3. CASE RequestFails \/ DownloadFails \/ Refuse \/ FinalizeFails \/ Finalize
    <2>1. UNCHANGED <<booted, everValid>> /\ pc' \in {"rollback", "finalizing"}
      BY <1>3 DEF RequestFails, DownloadFails, Refuse, FinalizeFails, Finalize, RollBack, history
    <2> QED BY <2>1 DEF BootedFits, Rest
  <1>4. CASE Connect \/ DownloadTruncated
    <2>1. UNCHANGED <<booted, everValid, running, part, slots>> /\ pc \in Rest
      BY <1>4 DEF Connect, DownloadTruncated, history, Rest
    <2> QED BY <2>1 DEF BootedFits, NoneValid
  <1>5. CASE DownloadCompletes \/ \E u \in Urls : Begin(u)
    <2>1. /\ UNCHANGED <<booted, everValid, running, slots>> /\ pc \in Rest
          /\ \E content : part' = [part EXCEPT ![Target] = content]
      BY <1>5 DEF DownloadCompletes, Begin, history, Rest
    <2>2. part'[running] = part[running]
      BY <1>0, <2>1 DEF TypeOK
    <2> QED BY <2>1, <2>2 DEF BootedFits, NoneValid
  <1>6. CASE FlashStep
    <2>1. UNCHANGED <<booted, everValid, running, part, pc>>
      BY <1>6 DEF FlashStep, history
    <2>2. pc \notin Rest
      BY <1>6 DEF FlashStep, IInv, QuietAtRest
    <2>3. pc = "validating" => ~NoneValid(slots)
      BY <1>0, RunningAndTarget DEF IInv, ValidatePlan
    <2> QED BY <2>1, <2>2, <2>3 DEF BootedFits
  <1>7. CASE FlashDone \/ FlashError
    <2>1. UNCHANGED <<booted, everValid, running, part, slots>>
      BY <1>7 DEF FlashDone, FlashError, history
    <2>2. pc' \in Rest \cup {"validating"} => pc = "validating"
      <3>1. CASE FlashDone
        BY <3>1 DEF FlashDone, AfterSetBoot, Rest
      <3>2. CASE FlashError
        <4>1. pc \notin Rest \cup {"reset"}
          BY <3>2 DEF FlashError, IInv, QuietAtRest
        <4> QED BY <1>0, <3>2, <4>1 DEF FlashError, RollBack, TypeOK, Locations, Rest
      <3> QED BY <1>7, <3>1, <3>2
    <2> QED BY <2>1, <2>2 DEF BootedFits, NoneValid
  <1>8. CASE \E i \in Slots : SectorLost(i)
    <2>1. /\ UNCHANGED <<booted, everValid, running, part, pc>>
          /\ ~NoneValid(slots)
      BY <1>8 DEF SectorLost, history, NoneValid, Slots
    <2> QED BY <2>1 DEF BootedFits
  <1>9. CASE UNCHANGED vars
    BY <1>9 DEF vars, history, BootedFits, NoneValid
  <1> QED BY <1>1, <1>2, <1>3, <1>4, <1>5, <1>6, <1>7, <1>8, <1>9 DEF Next, Progress

(* A power loss during a download leaves the firmware that runs booting,   *)
(* or the image that was just completed, because the entry of the running  *)
(* partition is the newest and its image is not touched.                   *)
THEOREM DownloadsAreHarmless == Spec => []DownloadIsHarmless
  <1>1. IInv /\ BootedFits => DownloadIsHarmless
    <2> SUFFICES ASSUME IInv, BootedFits, pc \in {"download", "verify"}, booted # Target,
                        BootEntryIntact
                 PROVE  Boots(slots, Bootable) \in {booted, Target}
      BY DEF DownloadIsHarmless
    <2> DEFINE images == {p \in Partitions : part[p] \in Images}
    <2>1. TypeOK /\ SlotsStandForPartitions /\ Bootable = {Factory} \cup images
      BY DEF IInv, Bootable
    <2>2. CASE NoneValid(slots) /\ booted = Factory
      BY <2>1, <2>2 DEF Boots, Selected
    <2>3. CASE slots[running] # 0
      <3>1. slots[running] > slots[Target]
        BY <2>3 DEF IInv, RunningIsNewest, Rest
      <3>2. PartitionOf(slots[running]) = running
        BY <2>1, <2>3, RunningAndTarget DEF SlotsStandForPartitions
      <3>3. Selected(slots) = running
        BY <2>1, <3>1, <3>2, RunningAndTarget, NewerIsSelected DEF TypeOK
      <3>4. booted \in {running, Factory}
        BY <2>1, RunningAndTarget DEF TypeOK, Slots, Partitions, Ota0, Ota1
      <3>5. ~NoneValid(slots)
        BY <2>1, <2>3, RunningAndTarget
      <3>6. CASE booted = running
        BY <2>1, <3>3, <3>6, RunningAndTarget DEF BootedFits, Rest, Boots
      <3>7. CASE booted = Factory
        <4>1. running \notin images
          BY <3>5, <3>7 DEF BootedFits, Rest
        <4>2. running \notin Bootable
          BY <2>1, <4>1, RunningAndTarget DEF Factory, Partitions, Ota0, Ota1
        <4>3. running = Ota1 => Target = Ota0
          BY DEF Target, Other, Ota0, Ota1
        <4> QED BY <3>3, <3>7, <4>2, <4>3 DEF Boots
      <3> QED BY <3>4, <3>6, <3>7
    <2> QED BY <2>2, <2>3 DEF BootEntryIntact
  <1> QED BY <1>1, InitBooted, NextBooted, PlanInvariant, PTL DEF Spec

(* While nothing has failed, set_boot_partition finds either both entries  *)
(* valid, and replaces one of them while the other stays, or none, before  *)
(* any boot with valid otadata, and writes both.                           *)
OneSlotPlan(p, new) ==
    /\ slots[Other(p)] # 0
    /\ \/ todo = <<>> /\ slots[p] # 0
       \/ todo = <<FlashOp(p, new)>>
       \/ todo = <<FlashOp(p, 0), FlashOp(p, new)>>
TwoSlotPlan(p, new, seed) ==
    \/ todo = <<>> /\ (NoneValid(slots) \/ (slots[p] # 0 /\ slots[Other(p)] # 0))
    \/ todo = <<FlashOp(Other(p), seed)>> /\ slots[p] # 0
    \/ todo = <<FlashOp(Other(p), 0), FlashOp(Other(p), seed)>> /\ slots[p] # 0
    \/ todo = <<FlashOp(p, new), FlashOp(Other(p), 0), FlashOp(Other(p), seed)>>
    \/ todo = <<FlashOp(p, 0), FlashOp(p, new), FlashOp(Other(p), 0), FlashOp(Other(p), seed)>>
FaultFree ==
    faults = 0 =>
        /\ pc # "validating"
        /\ everValid => \E p \in Partitions, new \in Nat \ {0} : OneSlotPlan(p, new)
        /\ ~everValid => /\ pc \in Rest => NoneValid(slots)
                         /\ \E p \in Partitions, new, seed \in Nat \ {0} : TwoSlotPlan(p, new, seed)

(* Before the first boot there is no entry. *)
LEMMA InitFaultFree == Init => FaultFree
  <1> SUFFICES ASSUME Init PROVE FaultFree
    OBVIOUS
  <1>1. NoneValid(slots) /\ Ota0 \in Partitions
    BY DEF Init, NoneValid, Slots, Partitions
  <1>2. todo = <<>>
    BY DEF Init
  <1>3. TwoSlotPlan(Ota0, 1, 1)
    BY <1>1, <1>2 DEF TwoSlotPlan
  <1> QED BY <1>1, <1>3 DEF Init, FaultFree

(* Both entries are valid, or none, when nothing is being written.         *)
LEMMA FaultFreeAtRest ==
    ASSUME IInv, FaultFree, faults = 0, todo = <<>>
    PROVE  /\ everValid => slots[running] # 0 /\ slots[Target] # 0
           /\ NoneValid(slots) \/ (slots[running] # 0 /\ slots[Target] # 0)
           /\ pc \in Rest /\ ~everValid => NoneValid(slots)
  <1>1. ASSUME NEW p \in Partitions, NEW new, OneSlotPlan(p, new)
        PROVE  slots[running] # 0 /\ slots[Target] # 0
    BY <1>1, RunningAndTarget DEF IInv, OneSlotPlan, Partitions, Ota0, Ota1, Other
  <1>2. ASSUME NEW p \in Partitions, NEW new, NEW seed, TwoSlotPlan(p, new, seed)
        PROVE  NoneValid(slots) \/ (slots[running] # 0 /\ slots[Target] # 0)
    BY <1>2, RunningAndTarget DEF IInv, TwoSlotPlan, Partitions, Ota0, Ota1, Other
  <1> QED BY <1>1, <1>2 DEF FaultFree, IInv, TypeOK

(* A plan that begins at rest is one of the two. *)
LEMMA FaultFreeBegins ==
    ASSUME IInv, FaultFree, faults = 0, pc \in Rest, NEW p \in Partitions,
           todo' = SetBootOps(slots, p), slots' = slots, everValid' = everValid,
           pc' \in {"finalizing", "rollback"}
    PROVE  FaultFree'
  <1>1. slots \in [Slots -> Nat] /\ SlotsStandForPartitions /\ todo = <<>> /\ TypeOK
    BY DEF IInv, TypeOK, QuietAtRest
  <1>2. Slots = {p, Other(p)} /\ p # Other(p) /\ everValid \in BOOLEAN
    BY <1>1, OtherPartition DEF Slots, Partitions, Ota0, Ota1, TypeOK
  <1>3. PICK n \in Nat \ {0} : n = NextSeq(slots, p)
    BY <1>1, NextSeqFits
  <1>4. CASE everValid
    <2>1. slots[Other(p)] # 0
      BY <1>1, <1>2, <1>4, FaultFreeAtRest, RunningAndTarget
    <2>2. todo' = <<FlashOp(p, 0), FlashOp(p, n)>>
      BY <1>3, <2>1 DEF SetBootOps
    <2>3. OneSlotPlan(p, n)'
      BY <2>1, <2>2 DEF OneSlotPlan
    <2> QED BY <1>3, <1>4, <2>3 DEF FaultFree
  <1>5. CASE ~everValid
    <2>1. slots[Other(p)] = 0
      BY <1>1, <1>2, <1>5, FaultFreeAtRest, RunningAndTarget
    <2>2. PICK d \in Nat \ {0} : d = SeedSeq(slots, p)
      BY <1>1, <2>1, SeedSeqFits DEF SlotsStandForPartitions
    <2>3. todo' = <<FlashOp(p, 0), FlashOp(p, n), FlashOp(Other(p), 0), FlashOp(Other(p), d)>>
      BY <1>3, <2>1, <2>2 DEF SetBootOps
    <2>4. TwoSlotPlan(p, n, d)'
      BY <2>3 DEF TwoSlotPlan
    <2> QED BY <1>3, <1>5, <2>2, <2>4 DEF FaultFree, Rest
  <1> QED BY <1>2, <1>4, <1>5

(* One flash operation leads from one state of a plan to the next. *)
LEMMA FaultFreeStep ==
    ASSUME IInv, FaultFree, faults = 0, FlashStep
    PROVE  FaultFree'
  <1> DEFINE op == Head(todo)
  <1>1. /\ slots \in [Slots -> Nat] /\ todo # <<>> /\ TypeOK
        /\ slots' = [slots EXCEPT ![op.slot] = op.seq] /\ todo' = Tail(todo)
        /\ UNCHANGED <<pc, faults, everValid>> /\ pc \notin Rest
    BY DEF IInv, TypeOK, FlashStep, history, QuietAtRest
  <1>2. \A p \in Partitions : p \in Slots /\ Other(p) \in Slots /\ p # Other(p)
                              /\ Other(p) \in Partitions /\ Other(Other(p)) = p
    BY OtherPartition DEF Slots, Partitions, Ota0, Ota1
  <1> HIDE DEF op
  <1>3. CASE everValid
    <2>1. PICK p \in Partitions, new \in Nat \ {0} : OneSlotPlan(p, new)
      BY <1>3 DEF FaultFree
    <2>2. CASE todo = <<FlashOp(p, new)>>
      <3>1. op = FlashOp(p, new) /\ todo' = <<>>
        BY <1>1, <2>2, PlanTails DEF op
      <3>2. slots'[p] # 0 /\ slots'[Other(p)] # 0
        BY <1>1, <1>2, <2>1, <3>1 DEF FlashOp, OneSlotPlan
      <3> QED BY <1>1, <1>3, <2>1, <3>1, <3>2 DEF FaultFree, OneSlotPlan
    <2>3. CASE todo = <<FlashOp(p, 0), FlashOp(p, new)>>
      <3>1. op = FlashOp(p, 0) /\ todo' = <<FlashOp(p, new)>>
        BY <1>1, <2>3, PlanTails DEF op
      <3>2. slots'[Other(p)] # 0
        BY <1>1, <1>2, <2>1, <3>1 DEF FlashOp, OneSlotPlan
      <3> QED BY <1>1, <1>3, <2>1, <3>1, <3>2 DEF FaultFree, OneSlotPlan
    <2> QED BY <1>1, <2>1, <2>2, <2>3 DEF OneSlotPlan
  <1>4. CASE ~everValid
    <2>1. PICK p \in Partitions, new, seed \in Nat \ {0} : TwoSlotPlan(p, new, seed)
      BY <1>4 DEF FaultFree
    <2>2. TwoSlotPlan(p, new, seed)'
      <3>1. CASE todo = <<FlashOp(Other(p), seed)>>
        <4>1. op = FlashOp(Other(p), seed) /\ todo' = <<>>
          BY <1>1, <3>1, PlanTails DEF op
        <4>2. slots[p] # 0
          BY <1>1, <2>1, <3>1 DEF TwoSlotPlan, FlashOp
        <4>3. slots'[p] # 0 /\ slots'[Other(p)] # 0
          BY <1>1, <1>2, <4>1, <4>2 DEF FlashOp
        <4> QED BY <4>1, <4>3 DEF TwoSlotPlan
      <3>2. CASE todo = <<FlashOp(Other(p), 0), FlashOp(Other(p), seed)>>
        <4>1. op = FlashOp(Other(p), 0) /\ todo' = <<FlashOp(Other(p), seed)>>
          BY <1>1, <3>2, PlanTails DEF op
        <4>2. slots[p] # 0
          BY <1>1, <2>1, <3>2 DEF TwoSlotPlan, FlashOp
        <4>3. slots'[p] # 0
          BY <1>1, <1>2, <4>1, <4>2 DEF FlashOp
        <4> QED BY <4>1, <4>3 DEF TwoSlotPlan
      <3>3. CASE todo = <<FlashOp(p, new), FlashOp(Other(p), 0), FlashOp(Other(p), seed)>>
        <4>1. op = FlashOp(p, new) /\ todo' = <<FlashOp(Other(p), 0), FlashOp(Other(p), seed)>>
          BY <1>1, <3>3, PlanTails DEF op
        <4>2. slots'[p] # 0
          BY <1>1, <1>2, <2>1, <4>1 DEF FlashOp
        <4> QED BY <4>1, <4>2 DEF TwoSlotPlan
      <3>4. CASE todo = <<FlashOp(p, 0), FlashOp(p, new),
                          FlashOp(Other(p), 0), FlashOp(Other(p), seed)>>
        <4>1. todo' = <<FlashOp(p, new), FlashOp(Other(p), 0), FlashOp(Other(p), seed)>>
          BY <1>1, <3>4, PlanTails
        <4> QED BY <4>1 DEF TwoSlotPlan
      <3> QED BY <1>1, <2>1, <3>1, <3>2, <3>3, <3>4 DEF TwoSlotPlan
    <2> QED BY <1>1, <1>4, <2>1, <2>2 DEF FaultFree
  <1> QED BY <1>1, <1>3, <1>4 DEF TypeOK

(* A boot that finds valid otadata without a fault finds both entries.     *)
LEMMA FaultFreeBoots ==
    ASSUME IInv, FaultFree, faults = 0, Boot
    PROVE  FaultFree'
  <1>1. /\ todo = <<>> /\ todo' = <<>> /\ slots' = slots /\ faults' = faults /\ TypeOK
        /\ pc' = "booting" /\ everValid' = (everValid \/ ~NoneValid(slots))
    BY DEF IInv, Boot, QuietAtRest, TypeOK
  <1>2. CASE NoneValid(slots)
    <2>1. ~everValid /\ everValid' = FALSE
      BY <1>1, <1>2, FaultFreeAtRest, RunningAndTarget DEF TypeOK
    <2>2. \E p \in Partitions, new, seed \in Nat \ {0} : TwoSlotPlan(p, new, seed)
      BY <2>1 DEF FaultFree
    <2> QED BY <1>1, <1>2, <2>1, <2>2 DEF FaultFree, TwoSlotPlan, NoneValid
  <1>3. CASE ~NoneValid(slots)
    <2>1. slots[running] # 0 /\ slots[Other(running)] # 0 /\ running \in Partitions
      BY <1>1, <1>3, FaultFreeAtRest, RunningAndTarget
    <2>2. OneSlotPlan(running, 1)
      BY <1>1, <2>1 DEF OneSlotPlan
    <2>3. \E p \in Partitions, new \in Nat \ {0} : OneSlotPlan(p, new)
      BY <2>1, <2>2
    <2> QED BY <1>1, <1>3, <2>3 DEF FaultFree, OneSlotPlan
  <1> QED BY <1>2, <1>3

(* Every step keeps FaultFree. *)
LEMMA NextFaultFree ==
    ASSUME IInv, FaultFree, [Next]_vars
    PROVE  FaultFree'
  <1>0. SUFFICES ASSUME faults' = 0 PROVE FaultFree'
    BY DEF FaultFree
  <1>1. faults = 0 /\ TypeOK /\ ~PowerLoss /\ ~FlashError /\ ~(\E i \in Slots : SectorLost(i))
    <2>1. faults \in Nat /\ TypeOK
      BY DEF IInv, TypeOK
    <2>2. ~Fault
      BY <1>0, <2>1 DEF Fault
    <2>3. ~PowerLoss /\ ~FlashError /\ ~(\E i \in Slots : SectorLost(i))
      BY <2>2 DEF PowerLoss, FlashError, SectorLost
    <2> QED BY <1>0, <2>1, <2>3 DEF Next, Progress, vars, Boot, Crash, Connect, ErasedUnderfoot,
             DownloadCompletes, DownloadTruncated, DownloadFails, Refuse, Finalize,
             FinalizeFails, FlashStep, FlashDone, RequestFails, Begin
  <1>2. CASE Boot
    BY <1>1, <1>2, FaultFreeBoots
  <1>3. CASE Connect
    <2>1. ~NeedsValidation(slots, running)
      <3>1. todo = <<>> /\ pc \in Rest
        BY <1>3 DEF IInv, QuietAtRest, Connect, Rest
      <3>2. NoneValid(slots) \/ slots[running] # 0
        BY <1>1, <3>1, FaultFreeAtRest
      <3> QED BY <1>1, <3>2, RunningAndTarget
              DEF NeedsValidation, RunningEntryCorrect, IInv, SlotsStandForPartitions
    <2>2. /\ pc' = "idle" /\ pc \in Rest /\ todo' = todo
          /\ UNCHANGED <<slots, faults, everValid>>
      BY <1>3, <2>1 DEF Connect, history, Rest, IInv, QuietAtRest
    <2> QED BY <1>1, <2>2 DEF FaultFree, OneSlotPlan, TwoSlotPlan, NoneValid, Rest
  <1>4. CASE RequestFails \/ DownloadFails \/ Refuse \/ FinalizeFails
    <2>1. /\ todo' = SetBootOps(slots, running) /\ pc' = "rollback" /\ pc \in Rest
          /\ UNCHANGED <<slots, everValid>>
      BY <1>4 DEF RequestFails, DownloadFails, Refuse, FinalizeFails, RollBack, history, Rest
    <2> QED BY <1>1, <2>1, RunningAndTarget, FaultFreeBegins
  <1>5. CASE Finalize
    <2>1. /\ todo' = SetBootOps(slots, Target) /\ pc' = "finalizing" /\ pc \in Rest
          /\ UNCHANGED <<slots, everValid>>
      BY <1>5 DEF Finalize, history, Rest
    <2> QED BY <1>1, <2>1, RunningAndTarget, FaultFreeBegins
  <1>6. CASE FlashStep
    BY <1>1, <1>6, FaultFreeStep
  <1>7. CASE \/ Crash \/ ErasedUnderfoot \/ DownloadCompletes \/ DownloadTruncated
             \/ FlashDone \/ \E u \in Urls : Begin(u)
    <2>1. UNCHANGED <<slots, todo, faults, everValid>>
      BY <1>7 DEF Crash, ErasedUnderfoot, DownloadCompletes, DownloadTruncated, FlashDone,
                  Begin, history
    <2>2. pc' # "validating" /\ (pc' \in Rest => pc \in Rest \cup {"validating"})
      BY <1>7 DEF Crash, ErasedUnderfoot, DownloadCompletes, DownloadTruncated, FlashDone,
                  AfterSetBoot, Begin, Rest
    <2> QED BY <1>1, <2>1, <2>2 DEF FaultFree, OneSlotPlan, TwoSlotPlan, NoneValid
  <1>8. CASE UNCHANGED vars
    BY <1>8 DEF vars, history, FaultFree, OneSlotPlan, TwoSlotPlan, NoneValid
  <1> QED BY <1>1, <1>2, <1>3, <1>4, <1>5, <1>6, <1>7, <1>8 DEF Next, Progress

(* Until the second fault a plan is carried out to its end, and every plan *)
(* ends by writing an entry.                                               *)
EndsWithEntry(ops) == ops # <<>> /\ ops[Len(ops)].seq # 0
OneFault ==
    everValid /\ faults <= 1 =>
        (todo = <<>> /\ ~NoneValid(slots)) \/ EndsWithEntry(todo)

(* Every plan of set_boot_partition ends by writing an entry. *)
LEMMA SetBootEndsWithEntry ==
    ASSUME NEW s \in [Slots -> Nat], NEW p \in Partitions,
           \A i \in Slots : s[i] = 0 \/ PartitionOf(s[i]) = i
    PROVE  EndsWithEntry(SetBootOps(s, p))
  <1>1. NextSeq(s, p) # 0
    BY NextSeqFits
  <1>2. s[Other(p)] = 0 => SeedSeq(s, p) # 0
    BY SeedSeqFits
  <1> QED BY <1>1, <1>2 DEF SetBootOps, EndsWithEntry, FlashOp

(* The last operation of a plan stays the last one. *)
LEMMA TailKeepsLast ==
    ASSUME NEW ops \in Seq(FlashOps), Len(ops) > 1
    PROVE  Tail(ops) # <<>> /\ Tail(ops)[Len(Tail(ops))] = ops[Len(ops)]
  <1>1. Len(ops) \in Nat /\ ops # <<>>
    OBVIOUS
  <1>2. Len(Tail(ops)) = Len(ops) - 1
    BY <1>1
  <1>3. \A i \in 1 .. Len(ops) - 1 : Tail(ops)[i] = ops[i + 1]
    BY <1>1
  <1> QED BY <1>1, <1>2, <1>3

(* Every step keeps OneFault. *)
LEMMA NextOneFault ==
    ASSUME IInv, FaultFree, OneFault, [Next]_vars
    PROVE  OneFault'
  <1>0. SUFFICES ASSUME everValid', faults' <= 1 PROVE OneFault'
    BY DEF OneFault
  <1>1. /\ TypeOK /\ slots \in [Slots -> Nat] /\ faults \in Nat /\ everValid \in BOOLEAN
        /\ \A i \in Slots : slots[i] = 0 \/ PartitionOf(slots[i]) = i
    BY DEF IInv, TypeOK, SlotsStandForPartitions
  <1>2. CASE Boot
    BY <1>0, <1>2 DEF OneFault, Boot, IInv, QuietAtRest, NoneValid
  <1>3. CASE RequestFails \/ DownloadFails \/ Refuse \/ FinalizeFails \/ Finalize
    <2>1. \E p \in Partitions : todo' = SetBootOps(slots, p)
      BY <1>1, <1>3, RunningAndTarget DEF RequestFails, DownloadFails, Refuse, FinalizeFails,
         Finalize, RollBack
    <2> QED BY <1>1, <2>1, SetBootEndsWithEntry DEF OneFault
  <1>4. CASE Connect
    <2>1. CASE NeedsValidation(slots, running)
      <3>1. todo' = <<FlashOp(running, 0), FlashOp(running, NextSeq(slots, running))>>
        BY <1>1, <1>4, <2>1, MarkValidFits DEF Connect, IInv
      <3>2. NextSeq(slots, running) # 0
        BY <1>1, NextSeqFits, RunningAndTarget
      <3> QED BY <3>1, <3>2 DEF OneFault, EndsWithEntry, FlashOp
    <2>2. CASE ~NeedsValidation(slots, running)
      BY <1>0, <1>4, <2>2 DEF Connect, OneFault, IInv, QuietAtRest, Rest, NoneValid, history,
         EndsWithEntry
    <2> QED BY <2>1, <2>2
  <1>5. CASE FlashStep
    <2> DEFINE op == Head(todo)
    <2>0. /\ todo # <<>> /\ todo \in Seq(FlashOps) /\ todo' = Tail(todo)
          /\ slots' = [slots EXCEPT ![op.slot] = op.seq]
      BY <1>1, <1>5 DEF FlashStep, TypeOK, FlashOps
    <2>1. op = todo[1] /\ op.slot \in Slots /\ Len(todo) \in Nat /\ Len(todo) >= 1
      <3>1. Len(todo) \in Nat /\ Len(todo) >= 1 /\ op = todo[1]
        BY <2>0
      <3>2. op \in FlashOps
        BY <2>0
      <3> QED BY <3>1, <3>2 DEF FlashOps
    <2> HIDE DEF op
    <2>2. EndsWithEntry(todo)
      BY <1>0, <1>5, <2>0 DEF OneFault, FlashStep, history
    <2>3. CASE Len(todo) = 1
      <3>1. todo' = <<>> /\ op.seq # 0
        BY <2>0, <2>1, <2>2, <2>3 DEF EndsWithEntry
      <3>2. slots'[op.slot] # 0
        BY <1>1, <2>0, <2>1, <3>1
      <3> QED BY <2>1, <3>1, <3>2 DEF OneFault, NoneValid, Slots
    <2>4. CASE Len(todo) # 1
      <3>1. Len(todo) > 1
        BY <2>1, <2>4
      <3>2. todo' # <<>> /\ todo'[Len(todo')] = todo[Len(todo)]
        BY <2>0, <3>1, TailKeepsLast
      <3> QED BY <2>2, <3>2 DEF OneFault, EndsWithEntry
    <2> QED BY <2>3, <2>4
  <1>6. CASE PowerLoss \/ FlashError
    <2>1. faults = 0 /\ everValid /\ slots' = slots
      <3>1. faults' = faults + 1 /\ slots' = slots /\ everValid' = everValid
        BY <1>6 DEF PowerLoss, FlashError, Fault, history
      <3> QED BY <1>0, <1>1, <3>1
    <2>2. ~NoneValid(slots)
      BY <2>1 DEF FaultFree, OneSlotPlan, NoneValid, Partitions, Ota0, Ota1, Other
    <2>3. CASE todo' = <<>>
      BY <2>1, <2>2, <2>3 DEF OneFault, NoneValid
    <2>4. CASE todo' # <<>>
      <3>1. todo' = SetBootOps(slots, running)
        BY <1>6, <2>4 DEF PowerLoss, FlashError, RollBack
      <3> QED BY <1>1, <3>1, RunningAndTarget, SetBootEndsWithEntry DEF OneFault
    <2> QED BY <2>3, <2>4
  <1>7. ASSUME NEW i \in Slots, SectorLost(i) PROVE OneFault'
    <2>1. /\ slots' = [slots EXCEPT ![i] = 0] /\ slots[Other(i)] # 0 /\ todo = <<>> /\ todo' = todo
      BY <1>7 DEF SectorLost, IInv, QuietAtRest, Rest
    <2>2. ~NoneValid(slots')
      BY <1>1, <2>1 DEF NoneValid, Slots, Other
    <2> QED BY <2>1, <2>2 DEF OneFault
  <1>8. CASE \/ Crash \/ ErasedUnderfoot \/ DownloadCompletes \/ DownloadTruncated
             \/ FlashDone \/ (\E u \in Urls : Begin(u)) \/ UNCHANGED vars
    <2>1. UNCHANGED <<slots, todo, faults, everValid>>
      BY <1>8 DEF Crash, ErasedUnderfoot, DownloadCompletes, DownloadTruncated, FlashDone,
                  Begin, history, vars
    <2> QED BY <2>1 DEF OneFault, EndsWithEntry, NoneValid
  <1> QED BY <1>2, <1>3, <1>4, <1>5, <1>6, <1>7, <1>8 DEF Next, Progress

(* One fault never costs the device both entries, whenever it strikes:     *)
(* between two flash operations of an update or of a roll back, or a       *)
(* sector at rest (set_boot_partition).                                    *)
THEOREM OneFaultIsSurvived == Spec => []OneFaultKeepsOtadata
  <1>1. Init => OneFault
    BY DEF Init, OneFault
  <1>2. IInv /\ OneFault => OneFaultKeepsOtadata
    BY DEF IInv, QuietAtRest, OneFault, OneFaultKeepsOtadata, EndsWithEntry
  <1> QED BY <1>1, <1>2, InitFaultFree, NextFaultFree, NextOneFault, PlanInvariant, PTL DEF Spec

(* Faults are survived: one never costs both entries, and a power loss     *)
(* during a download leaves a firmware booting (perform_ota_update).       *)
THEOREM FaultsAreSurvived == Spec => []FaultsSurvived
  BY OneFaultIsSurvived, DownloadsAreHarmless, PTL DEF FaultsSurvived

-----------------------------------------------------------------------------
(* Refused images.                                                         *)

(* While nothing has failed, a refused image is in the partition that does *)
(* not run, and stays there until the next download erases it; the entry   *)
(* of the running partition is the newest, or the roll back is about to    *)
(* make it so.                                                             *)
RollBackPlan(new) ==
    \/ todo = <<>> /\ slots[running] > slots[Target]
    \/ todo = <<FlashOp(running, new)>> /\ new > slots[Target]
    \/ todo = <<FlashOp(running, 0), FlashOp(running, new)>> /\ new > slots[Target]
RefusedIsApart ==
    faults = 0 /\ refused # {} =>
        /\ refused = {Target} /\ booted = running /\ part[running] \in Images
        /\ pc \in {"reset", "booting", "idle", "rollback"}
        /\ pc # "rollback" => slots[running] > slots[Target]
        /\ pc = "rollback" => \E new \in Nat \ {0} : RollBackPlan(new)

(* The roll back that follows a refusal, or that of a request that fails   *)
(* after it, leaves the running partition the newest.                      *)
LEMMA RollBackKeepsRunning ==
    ASSUME IInv, BootedFits, FaultFree, faults = 0, pc \in Rest, booted = running, RollBack,
           UNCHANGED <<slots, running>>
    PROVE  \E new \in Nat \ {0} : RollBackPlan(new)'
  <1>1. TypeOK /\ slots \in [Slots -> Nat] /\ todo = <<>>
    BY DEF IInv, TypeOK, QuietAtRest
  <1>2. everValid
    BY <1>1, RunningAndTarget DEF BootedFits
  <1>3. slots[Target] # 0
    BY <1>1, <1>2, FaultFreeAtRest
  <1>4. PICK new \in Nat \ {0} : new = NextSeq(slots, running) /\ new > slots[Target]
    BY <1>1, NextSeqFits, RunningAndTarget
  <1>5. todo' = <<FlashOp(running, 0), FlashOp(running, new)>>
    BY <1>1, <1>3, <1>4, RunningAndTarget DEF RollBack, SetBootOps
  <1>6. Target' = Target
    BY DEF Target
  <1>7. RollBackPlan(new)'
    BY <1>4, <1>5, <1>6 DEF RollBackPlan
  <1> QED BY <1>7

(* A boot after a refusal starts the partition that ran before. *)
LEMMA BootKeepsRefusedApart ==
    ASSUME IInv, RefusedIsApart, faults = 0, refused # {}, Boot
    PROVE  RefusedIsApart'
  <1>1. /\ TypeOK /\ slots \in [Slots -> Nat] /\ SlotsStandForPartitions
        /\ refused = {Target} /\ booted = running /\ part[running] \in Images
        /\ slots[running] > slots[Target]
    BY DEF IInv, TypeOK, RefusedIsApart, Boot
  <1>2. slots[running] # 0 /\ ~NoneValid(slots)
    BY <1>1, RunningAndTarget
  <1>3. Selected(slots) = running
    <2>1. PartitionOf(slots[running]) = running
      BY <1>1, <1>2, RunningAndTarget DEF SlotsStandForPartitions
    <2> QED BY <1>1, <2>1, RunningAndTarget, NewerIsSelected
  <1>4. running' = running
    BY <1>1, <1>2, <1>3, SelectedIsDetected DEF Boot
  <1>5. booted' = running
    <2>1. running \in Bootable
      BY <1>1, RunningAndTarget DEF Bootable
    <2> QED BY <1>3, <2>1 DEF Boot, Boots
  <1> QED BY <1>1, <1>4, <1>5 DEF RefusedIsApart, Boot, Target

(* Every step keeps RefusedIsApart. *)
LEMMA NextRefusedApart ==
    ASSUME IInv, BootedFits, FaultFree, RefusedIsApart, [Next]_vars
    PROVE  RefusedIsApart'
  <1>0. SUFFICES ASSUME faults' = 0, refused' # {} PROVE RefusedIsApart'
    BY DEF RefusedIsApart
  <1>1. faults = 0 /\ TypeOK /\ ~PowerLoss /\ ~FlashError /\ ~(\E i \in Slots : SectorLost(i))
    <2>1. faults \in Nat /\ TypeOK
      BY DEF IInv, TypeOK
    <2>2. ~Fault
      BY <1>0, <2>1 DEF Fault
    <2>3. ~PowerLoss /\ ~FlashError /\ ~(\E i \in Slots : SectorLost(i))
      BY <2>2 DEF PowerLoss, FlashError, SectorLost
    <2> QED BY <1>0, <2>1, <2>3 DEF Next, Progress, vars, Boot, Crash, Connect, ErasedUnderfoot,
             DownloadCompletes, DownloadTruncated, DownloadFails, Refuse, Finalize,
             FinalizeFails, FlashStep, FlashDone, RequestFails, Begin
  <1>2. CASE Boot
    BY <1>0, <1>1, <1>2, BootKeepsRefusedApart DEF Boot
  <1>3. CASE Crash
    BY <1>0, <1>1, <1>3 DEF Crash, RefusedIsApart, history, Target
  <1>4. CASE Connect
    <2>1. /\ UNCHANGED <<slots, part, booted, running, refused>>
          /\ pc' \in {"validating", "idle"} /\ pc = "booting"
      BY <1>4 DEF Connect, history
    <2>2. pc' # "validating"
      BY <1>0, NextFaultFree DEF FaultFree
    <2> QED BY <1>0, <1>1, <2>1, <2>2 DEF RefusedIsApart, Target
  <1>5. CASE \E u \in Urls : Begin(u)
    BY <1>0, <1>1, <1>5 DEF Begin, RefusedIsApart
  <1>6. CASE \/ ErasedUnderfoot \/ DownloadCompletes \/ DownloadTruncated \/ DownloadFails
             \/ Finalize \/ FinalizeFails
    BY <1>0, <1>1, <1>6 DEF ErasedUnderfoot, DownloadCompletes, DownloadTruncated,
       DownloadFails, Finalize, FinalizeFails, RefusedIsApart, history
  <1>7. CASE RequestFails
    <2>1. /\ UNCHANGED <<slots, part, booted, running, refused>> /\ RollBack /\ pc = "idle"
      BY <1>7 DEF RequestFails, history
    <2>2. refused = {Target} /\ booted = running /\ part[running] \in Images
      BY <1>0, <1>1, <2>1 DEF RefusedIsApart
    <2>3. \E new \in Nat \ {0} : RollBackPlan(new)'
      BY <1>1, <2>1, <2>2, RollBackKeepsRunning DEF Rest
    <2> QED BY <2>1, <2>2, <2>3 DEF RefusedIsApart, RollBack, Target
  <1>8. CASE Refuse
    <2>1. /\ UNCHANGED <<slots, part, booted, running>> /\ RollBack /\ pc = "verify"
          /\ refused' = IF booted = running THEN refused \cup {Target} ELSE refused
      BY <1>8 DEF Refuse
    <2>2. refused = {}
      BY <1>1, <2>1 DEF RefusedIsApart
    <2>3. refused' = {Target} /\ booted = running
      BY <1>0, <2>1, <2>2
    <2>4. part[running] \in Images
      BY <2>1, <2>3 DEF BootedFits, Rest
    <2>5. \E new \in Nat \ {0} : RollBackPlan(new)'
      BY <1>1, <2>1, <2>3, RollBackKeepsRunning DEF Rest
    <2> QED BY <2>1, <2>3, <2>4, <2>5 DEF RefusedIsApart, RollBack, Target
  <1>9. CASE FlashStep
    <2> DEFINE op == Head(todo)
    <2>1. /\ UNCHANGED <<part, booted, running, refused, pc>> /\ todo # <<>>
          /\ slots' = [slots EXCEPT ![op.slot] = op.seq] /\ todo' = Tail(todo)
      BY <1>9 DEF FlashStep, history
    <2>2. pc = "rollback"
      BY <1>0, <1>1, <2>1 DEF RefusedIsApart, IInv, QuietAtRest, Rest
    <2>3. PICK new \in Nat \ {0} : RollBackPlan(new)
      BY <1>0, <1>1, <2>1, <2>2 DEF RefusedIsApart
    <2>4. /\ running # Target /\ running \in Slots /\ Target \in Slots
          /\ Target' = Target /\ slots \in [Slots -> Nat]
      BY <1>1, <2>1, RunningAndTarget DEF TypeOK, Target
    <2> HIDE DEF op
    <2>5. RollBackPlan(new)'
      <3>1. CASE todo = <<FlashOp(running, new)>>
        <4>1. op = FlashOp(running, new) /\ todo' = <<>>
          BY <2>1, <3>1, PlanTails DEF op
        <4>2. new > slots[Target]
          BY <2>3, <3>1 DEF RollBackPlan, FlashOp
        <4>3. slots'[running] = new /\ slots'[Target] = slots[Target]
          BY <2>1, <2>4, <4>1 DEF FlashOp
        <4> QED BY <2>1, <2>4, <4>1, <4>2, <4>3 DEF RollBackPlan
      <3>2. CASE todo = <<FlashOp(running, 0), FlashOp(running, new)>>
        <4>1. op = FlashOp(running, 0) /\ todo' = <<FlashOp(running, new)>>
          BY <2>1, <3>2, PlanTails DEF op
        <4>2. new > slots[Target]
          BY <2>3, <3>2 DEF RollBackPlan, FlashOp
        <4>3. slots'[Target] = slots[Target]
          BY <2>1, <2>4, <4>1 DEF FlashOp
        <4> QED BY <2>1, <2>4, <4>1, <4>2, <4>3 DEF RollBackPlan
      <3> QED BY <2>1, <2>3, <3>1, <3>2 DEF RollBackPlan
    <2>6. refused = {Target} /\ booted = running /\ part[running] \in Images
      BY <1>0, <1>1, <2>1 DEF RefusedIsApart
    <2> QED BY <2>1, <2>2, <2>4, <2>5, <2>6 DEF RefusedIsApart
  <1>10. CASE FlashDone
    <2>1. /\ UNCHANGED <<slots, part, booted, running, refused>> /\ todo = <<>>
          /\ pc \in {"validating", "finalizing", "rollback"} /\ pc' = AfterSetBoot(pc)
      BY <1>10 DEF FlashDone, history
    <2>2. /\ refused = {Target} /\ booted = running /\ part[running] \in Images
          /\ pc = "rollback" /\ \E new \in Nat \ {0} : RollBackPlan(new)
      BY <1>0, <1>1, <2>1 DEF RefusedIsApart
    <2>3. slots[running] > slots[Target]
      BY <2>1, <2>2 DEF RollBackPlan
    <2> QED BY <2>1, <2>2, <2>3 DEF RefusedIsApart, AfterSetBoot, Target
  <1>11. CASE UNCHANGED vars
    BY <1>11 DEF vars, history, RefusedIsApart, RollBackPlan, Target
  <1> QED BY <1>1, <1>2, <1>3, <1>4, <1>5, <1>6, <1>7, <1>8, <1>9, <1>10, <1>11
          DEF Next, Progress

(* An image that verify_hash has refused is not booted, whatever requests  *)
(* follow, as long as the hardware does not fail (ota_rollback,            *)
(* set_boot_partition).                                                    *)
THEOREM RefusedIsNeverBooted == Spec => []RefusedNeverBoots
  <1>1. IInv /\ RefusedIsApart => RefusedNeverBoots
    BY RunningAndTarget DEF IInv, RefusedIsApart, RefusedNeverBoots
  <1>2. Init => BootedFits /\ FaultFree /\ RefusedIsApart
    BY InitBooted, InitFaultFree DEF Init, RefusedIsApart
  <1> QED BY <1>1, <1>2, NextBooted, NextFaultFree, NextRefusedApart, PlanInvariant, PTL DEF Spec

-----------------------------------------------------------------------------
(* The composition implements OtaBoot.                                     *)

(* Every step of the two is a step of the device, or none of it. *)
LEMMA FlashNextIsNext ==
    ASSUME [FlashNext]_flashVars
    PROVE  [Next]_vars
  <1>1. [image |-> NewImage, crc |-> NoCrc] \in Urls
    BY FlashAssumption DEF Urls, Images
  <1>2. CASE DeviceSteps
    BY <1>2 DEF DeviceSteps, Next
  <1>3. CASE DeviceFails
    BY <1>3 DEF DeviceFails, Next
  <1>4. CASE OtherRequest
    BY <1>4 DEF OtherRequest, Next
  <1>5. CASE CommandArrives
    BY <1>1, <1>5 DEF CommandArrives, Next
  <1>6. CASE CommandLost \/ DevicePublishes
    BY <1>6 DEF CommandLost, DevicePublishes
  <1>7. CASE HostSteps
    BY <1>7 DEF HostSteps, SeesDownload, HostDrains, TriggerTimesOut, HostReads,
                RebootTimesOut, HostMoves
  <1>8. CASE UNCHANGED flashVars
    BY <1>8 DEF flashVars
  <1> QED BY <1>2, <1>3, <1>4, <1>5, <1>6, <1>7, <1>8 DEF FlashNext

(* The device under the flasher is the device of OtaBoot. *)
THEOREM FlashImplementsOtaBoot == FlashSpec => Spec
  <1>1. FlashInit => Init
    BY DEF FlashInit
  <1> QED BY <1>1, FlashNextIsNext, PTL DEF FlashSpec, Spec

(* Otadata is sound, faults are survived, refused images are not booted    *)
(* and an update switches once, whatever the flasher and the network do.   *)
THEOREM FlashedDeviceIsSound ==
    FlashSpec => /\ [](OtadataSound /\ FaultsSurvived /\ RefusedNeverBoots)
                 /\ UpdateSwitchesOnce
  BY FlashImplementsOtaBoot, OtadataCorrect, FaultsAreSurvived, RefusedIsNeverBooted,
     UpdateIsAtomic, PTL

-----------------------------------------------------------------------------
(* What is verified stays.                                                 *)

(* The inductive invariant: as long as the hardware works, no request      *)
(* failed and no download was cut short, the only image that ever comes to *)
(* the device is the new one.  The selected partition holds it, an update  *)
(* begins in the other one, and a version the host can read was told by a  *)
(* device that was booted through otadata.                                 *)
Undisturbed == faults = 0 /\ ~spoiled /\ host.phase # "off"
Phases == {"off", "trigger", "reboot"} \cup Over
FlashTypeOK ==
    /\ host \in [phase : Phases, attempts : Nat, online : BOOLEAN]
    /\ notices \in Seq({Online, "new", "old"})
    /\ spoiled \in BOOLEAN
OnlyNewImage ==
    /\ pc # "rollback"
    /\ ~NoneValid(slots) => part[Selected(slots)] = NewImage
    /\ pc \in {"booting", "idle", "download"} => received = NoImage
    /\ pc = "download" => url.image = NewImage
    /\ pc \in {"verify", "finalizing"} => part[Target] = NewImage
ToldByABootedDevice ==
    /\ host.phase = "verified" => everValid
    /\ \A k \in DOMAIN notices : notices[k] = "new" => everValid
FlashFits ==
    /\ FlashTypeOK
    /\ Undisturbed => OnlyNewImage /\ ToldByABootedDevice

(* The empty sequence has every type. *)
LEMMA NothingIsTyped == \A S : <<>> \in Seq(S)
  OBVIOUS

(* Before the first boot there is nothing to tell. *)
LEMMA InitFlashFits == FlashInit => FlashFits
  <1> SUFFICES ASSUME FlashInit PROVE FlashFits
    OBVIOUS
  <1>1. FlashTypeOK
    <2>1. \A phase \in Phases : NewHost(phase) \in [phase : Phases, attempts : Nat, online : BOOLEAN]
      BY DEF NewHost
    <2>2. "off" \in Phases /\ "trigger" \in Phases
      BY DEF Phases
    <2>3. host \in [phase : Phases, attempts : Nat, online : BOOLEAN]
      BY <2>1, <2>2 DEF FlashInit
    <2>4. notices \in Seq({Online, "new", "old"}) /\ spoiled \in BOOLEAN
      BY NothingIsTyped DEF FlashInit
    <2> QED BY <2>3, <2>4 DEF FlashTypeOK
  <1>2. NoneValid(slots) /\ pc = "reset"
    BY DEF FlashInit, Init, NoneValid, Slots
  <1>3. host.phase # "verified" /\ notices = <<>>
    BY DEF FlashInit, NewHost
  <1> QED BY <1>1, <1>2, <1>3 DEF FlashFits, OnlyNewImage, ToldByABootedDevice

(* A step of any kind keeps the types. *)
LEMMA NextFlashTyped ==
    ASSUME FlashTypeOK, [FlashNext]_flashVars
    PROVE  FlashTypeOK'
  <1> DEFINE N == {Online, "new", "old"}
  <1>0. /\ host \in [phase : Phases, attempts : Nat, online : BOOLEAN]
        /\ notices \in Seq(N) /\ spoiled \in BOOLEAN /\ Version \in N /\ Online \in N
    BY DEF FlashTypeOK, Version
  <1>1. \A n \in N : Append(notices, n) \in Seq(N)
    BY <1>0
  <1>2. notices # <<>> => Tail(notices) \in Seq(N)
    BY <1>0
  <1>3. CASE DeviceSteps
    BY <1>0, <1>1, <1>3 DEF DeviceSteps, Publishes, FlashTypeOK
  <1>4. CASE DeviceFails \/ OtherRequest
    BY <1>4 DEF DeviceFails, OtherRequest, hostVars, FlashTypeOK
  <1>5. CASE CommandArrives \/ CommandLost
    BY <1>5 DEF CommandArrives, CommandLost, FlashTypeOK
  <1>6. CASE DevicePublishes
    BY <1>0, <1>1, <1>6 DEF DevicePublishes, FlashTypeOK
  <1>7. CASE SeesDownload
    BY <1>0, <1>7 DEF SeesDownload, HostMoves, FlashTypeOK, Phases
  <1>8. CASE HostDrains
    BY <1>0, <1>2, <1>8 DEF HostDrains, FlashTypeOK
  <1>9. CASE TriggerTimesOut
    BY <1>0, <1>9 DEF TriggerTimesOut, HostMoves, Listens, FlashTypeOK, Phases, Over
  <1>10. CASE HostReads
    <2>1. notices' = <<>> \/ (notices # <<>> /\ notices' = Tail(notices))
      BY <1>10 DEF HostReads
    <2>2. notices' \in Seq(N)
      BY <1>2, <2>1, NothingIsTyped
    <2>3. \/ host' = host \/ host' = [host EXCEPT !.online = TRUE]
          \/ \E phase \in {"verified", "failed"} : host' = [host EXCEPT !.phase = phase]
      BY <1>10 DEF HostReads, HostMoves, Verdict
    <2>4. host' \in [phase : Phases, attempts : Nat, online : BOOLEAN]
      BY <1>0, <2>3 DEF Phases, Over
    <2> QED BY <1>0, <1>10, <2>2, <2>4 DEF HostReads, HostMoves, FlashTypeOK
  <1>11. CASE RebootTimesOut
    BY <1>0, <1>11 DEF RebootTimesOut, HostMoves, Listens, FlashTypeOK, Phases, Over
  <1>12. CASE UNCHANGED flashVars
    BY <1>12 DEF flashVars, hostVars, FlashTypeOK
  <1> QED BY <1>3, <1>4, <1>5, <1>6, <1>7, <1>8, <1>9, <1>10, <1>11, <1>12
          DEF FlashNext, HostSteps

(* With otadata that was valid at a boot, and no fault, an entry is valid  *)
(* at any moment of an update.                                             *)
LEMMA AnEntryIsValid ==
    ASSUME IInv, FaultFree, faults = 0, everValid
    PROVE  ~NoneValid(slots)
  <1>1. PICK p \in Partitions, new \in Nat \ {0} : OneSlotPlan(p, new)
    BY DEF FaultFree
  <1>2. slots[Other(p)] # 0
    BY <1>1 DEF OneSlotPlan
  <1> QED BY <1>2 DEF NoneValid, Partitions, Ota0, Ota1, Other

(* At rest the boot loader selects the partition that runs. *)
LEMMA RunningIsSelected ==
    ASSUME IInv, FaultFree, faults = 0, pc \in Rest, ~NoneValid(slots)
    PROVE  Selected(slots) = running
  <1>1. TypeOK /\ SlotsStandForPartitions /\ todo = <<>>
    BY DEF IInv, QuietAtRest
  <1>2. slots[running] # 0
    BY <1>1, FaultFreeAtRest
  <1>3. slots[running] > slots[Target]
    BY <1>2 DEF IInv, RunningIsNewest
  <1>4. PartitionOf(slots[running]) = running
    BY <1>1, <1>2, RunningAndTarget DEF SlotsStandForPartitions
  <1> QED BY <1>1, <1>3, <1>4, RunningAndTarget, NewerIsSelected DEF TypeOK

(* A step of the device keeps OnlyNewImage, unless it is disturbed. *)
LEMMA ProgressKeepsNewImage ==
    ASSUME IInv, FaultFree, faults = 0, OnlyNewImage, Progress,
           pc' # "rollback", ~(pc = "download" /\ pc' = "verify" /\ received' = NoImage)
    PROVE  OnlyNewImage'
  <1>0. /\ TypeOK /\ running # Target /\ running \in Partitions /\ Target \in Partitions
        /\ pc # "validating" /\ slots \in [Slots -> Nat]
    BY RunningAndTarget DEF IInv, FaultFree, TypeOK
  <1>1. CASE Boot
    BY <1>1 DEF Boot, OnlyNewImage, NoneValid, Selected
  <1>2. CASE Crash \/ ErasedUnderfoot \/ FlashDone
    BY <1>0, <1>2 DEF Crash, ErasedUnderfoot, FlashDone, AfterSetBoot, OnlyNewImage
  <1>3. CASE Connect
    <2>1. pc' = "idle"
      <3>1. todo = <<>> /\ pc \in Rest
        BY <1>3 DEF IInv, QuietAtRest, Connect, Rest
      <3>2. NoneValid(slots) \/ slots[running] # 0
        BY <3>1, FaultFreeAtRest
      <3>3. ~NeedsValidation(slots, running)
        BY <1>0, <3>2, RunningAndTarget
           DEF NeedsValidation, RunningEntryCorrect, IInv, SlotsStandForPartitions
      <3> QED BY <1>3, <3>3 DEF Connect
    <2> QED BY <1>3, <2>1 DEF Connect, OnlyNewImage
  <1>4. CASE DownloadCompletes
    <2>1. part' = [part EXCEPT ![Target] = NewImage] /\ pc' = "verify"
          /\ UNCHANGED <<slots, running>>
      BY <1>4 DEF DownloadCompletes, OnlyNewImage
    <2>2. part'[Target] = NewImage /\ \A p \in Partitions : part'[p] \in {part[p], NewImage}
      BY <1>0, <2>1 DEF TypeOK
    <2>3. ~NoneValid(slots) => Selected(slots) \in Partitions
      BY <1>0, SelectedIsDetected
    <2>4. ~NoneValid(slots) => part'[Selected(slots)] = NewImage
      BY <2>2, <2>3 DEF OnlyNewImage
    <2> QED BY <2>1, <2>2, <2>4 DEF OnlyNewImage, Target
  <1>5. CASE DownloadTruncated
    BY <1>5 DEF DownloadTruncated, OnlyNewImage
  <1>6. CASE DownloadFails \/ Refuse \/ FinalizeFails
    BY <1>6 DEF DownloadFails, Refuse, FinalizeFails, RollBack
  <1>7. CASE Finalize
    BY <1>7 DEF Finalize, OnlyNewImage, Target
  <1>8. CASE FlashStep
    <2>1. pc = "finalizing"
      BY <1>0, <1>8 DEF FlashStep, IInv, QuietAtRest, Rest, TypeOK, Locations, OnlyNewImage
    <2>2. UNCHANGED <<pc, part, running, received, url>>
      BY <1>8 DEF FlashStep
    <2>3. \/ Selected(slots') \in {Selected(slots), Target}
          \/ slots[running] = 0 /\ NoneValid(slots')
      BY <1>8, <2>1, FinalizingSwitchesOnce DEF Next, Progress
    <2>4. ~NoneValid(slots') => part[Selected(slots')] = NewImage
      <3> SUFFICES ASSUME ~NoneValid(slots') PROVE part[Selected(slots')] = NewImage
        OBVIOUS
      <3>1. slots' \in [Slots -> Nat]
        BY <1>8, NextFits DEF Next, Progress, IInv, TypeOK
      <3>2. Selected(slots') # Factory
        BY <3>1, SelectedIsDetected DEF Factory, Partitions, Ota0, Ota1
      <3>3. CASE Selected(slots') = Selected(slots)
        BY <3>2, <3>3 DEF Selected, OnlyNewImage
      <3>4. CASE Selected(slots') = Target
        BY <2>1, <3>4 DEF OnlyNewImage
      <3> QED BY <2>3, <3>3, <3>4
    <2> QED BY <2>1, <2>2, <2>4 DEF OnlyNewImage, Target
  <1> QED BY <1>1, <1>2, <1>3, <1>4, <1>5, <1>6, <1>7, <1>8 DEF Progress

(* An update begins in the partition that is not selected. *)
LEMMA BeginKeepsNewImage ==
    ASSUME IInv, FaultFree, faults = 0, OnlyNewImage, NEW u, u.image = NewImage, Begin(u)
    PROVE  OnlyNewImage'
  <1>0. TypeOK /\ running # Target /\ running \in Partitions /\ Target \in Partitions
    BY RunningAndTarget DEF IInv
  <1>1. /\ part' = [part EXCEPT ![Target] = NoImage] /\ pc' = "download" /\ pc = "idle"
        /\ url' = u /\ UNCHANGED <<slots, running, received>>
    BY DEF Begin
  <1>2. ~NoneValid(slots) => Selected(slots) = running
    BY <1>1, RunningIsSelected DEF Rest
  <1>3. part'[running] = part[running]
    BY <1>0, <1>1 DEF TypeOK
  <1> QED BY <1>1, <1>2, <1>3 DEF OnlyNewImage

(* otadata that was valid at a boot stays so recorded, and faults are not  *)
(* forgotten.                                                              *)
LEMMA HistoryGrows ==
    ASSUME TypeOK, [Next]_vars
    PROVE  (everValid => everValid') /\ (faults' = 0 => faults = 0)
  <1>1. faults \in Nat
    BY DEF TypeOK
  <1>2. CASE Boot
    BY <1>1, <1>2 DEF Boot
  <1>3. CASE PowerLoss \/ FlashError \/ \E i \in Slots : SectorLost(i)
    <2>1. everValid' = everValid /\ faults' = faults + 1
      BY <1>3 DEF PowerLoss, FlashError, SectorLost, Fault, history
    <2> QED BY <1>1, <2>1
  <1>4. CASE ~Boot /\ ~PowerLoss /\ ~FlashError /\ ~(\E i \in Slots : SectorLost(i))
    <2>1. everValid' = everValid /\ faults' = faults
      BY <1>4 DEF Next, Progress, vars, Crash, Connect, ErasedUnderfoot, DownloadCompletes,
             DownloadTruncated, DownloadFails, Refuse, Finalize, FinalizeFails, FlashStep,
             FlashDone, RequestFails, Begin, history
    <2> QED BY <2>1
  <1> QED BY <1>2, <1>3, <1>4

(* What was told stays told, and is read from where it was told. *)
LEMMA NextTold ==
    ASSUME FlashTypeOK, IInv, BootedFits, ToldByABootedDevice, [FlashNext]_flashVars
    PROVE  ToldByABootedDevice'
  <1> DEFINE N == {Online, "new", "old"}
             Told(s) == \A k \in DOMAIN s : s[k] = "new" => everValid'
  <1>0. /\ host \in [phase : Phases, attempts : Nat, online : BOOLEAN] /\ notices \in Seq(N)
        /\ (everValid => everValid') /\ Online # "new"
    BY FlashNextIsNext, HistoryGrows DEF FlashTypeOK, IInv, Online
  <1>1. Told(notices) /\ Told(<<>>)
    BY <1>0 DEF ToldByABootedDevice
  <1>2. ASSUME NEW n \in N, n = "new" => everValid' PROVE Told(Append(notices, n))
    BY <1>0, <1>1, <1>2
  <1>3. notices # <<>> => Told(Tail(notices))
    BY <1>0, <1>1
  <1>4. notices # <<>> /\ Head(notices) = "new" => everValid'
    BY <1>0, <1>1
  <1>5. Version = "new" => everValid
    <2>1. TypeOK
      BY DEF IInv
    <2> QED BY <2>1 DEF Version, BootedFits, TypeOK
  <1> HIDE DEF Told
  <1>6. Told(notices')
    <2>1. CASE notices' = notices \/ notices' = <<>>
      BY <1>1, <2>1
    <2>2. CASE notices # <<>> /\ notices' = Tail(notices)
      BY <1>3, <2>2
    <2>3. CASE notices' = Append(notices, Online)
      BY <1>0, <1>2, <2>3
    <2>4. CASE notices' = Append(notices, Version)
      <3>1. Version \in N
        BY DEF Version
      <3> QED BY <1>0, <1>2, <1>5, <2>4, <3>1
    <2>5. CASE DevicePublishes
      BY <2>3, <2>4, <2>5 DEF DevicePublishes
    <2>6. CASE DeviceSteps
      BY <2>1, <2>3, <2>6 DEF DeviceSteps, Publishes
    <2>7. CASE ~DevicePublishes /\ ~DeviceSteps
      BY <2>1, <2>2, <2>7 DEF FlashNext, flashVars, hostVars, DeviceFails, OtherRequest,
         CommandArrives, CommandLost, HostSteps, SeesDownload, HostDrains, TriggerTimesOut,
         Listens, HostReads, RebootTimesOut
    <2> QED BY <2>5, <2>6, <2>7
  <1>7. host'.phase = "verified" => everValid'
    <2>1. CASE HostReads
      <3>1. CASE host' = host \/ host' = [host EXCEPT !.online = TRUE]
        BY <1>0, <3>1 DEF ToldByABootedDevice
      <3>2. CASE /\ host' = [host EXCEPT !.phase = Verdict(Head(notices))]
                 /\ notices # <<>>
        <4>1. host'.phase = Verdict(Head(notices))
          BY <1>0, <3>2
        <4> QED BY <1>4, <3>2, <4>1 DEF Verdict
      <3> QED BY <2>1, <3>1, <3>2 DEF HostReads, HostMoves
    <2>2. CASE ~HostReads
      <3>1. host' = host \/ host'.phase # "verified"
        <4>1. CASE SeesDownload
          BY <1>0, <4>1 DEF SeesDownload, HostMoves
        <4>2. CASE TriggerTimesOut
          BY <1>0, <4>2 DEF TriggerTimesOut, HostMoves
        <4>3. CASE RebootTimesOut
          BY <1>0, <4>3 DEF RebootTimesOut, HostMoves
        <4>4. CASE ~SeesDownload /\ ~TriggerTimesOut /\ ~RebootTimesOut
          BY <2>2, <4>4 DEF FlashNext, flashVars, hostVars, DeviceSteps, DeviceFails,
             OtherRequest, CommandArrives, CommandLost, DevicePublishes, HostSteps, HostDrains
        <4> QED BY <4>1, <4>2, <4>3, <4>4
      <3> QED BY <1>0, <3>1 DEF ToldByABootedDevice
    <2> QED BY <2>1, <2>2
  <1> QED BY <1>6, <1>7 DEF ToldByABootedDevice, Told

(* A step without a disturbance keeps OnlyNewImage. *)
LEMMA NextOnlyNewImage ==
    ASSUME FlashTypeOK, IInv, FaultFree, Undisturbed, OnlyNewImage, ~spoiled', faults' = 0,
           [FlashNext]_flashVars
    PROVE  OnlyNewImage'
  <1>0. faults = 0 /\ host.phase # "off" /\ faults \in Nat
    BY DEF Undisturbed, IInv, TypeOK
  <1>1. CASE DeviceSteps
    <2>1. pc' # "rollback" /\ ~(pc = "download" /\ pc' = "verify" /\ received' = NoImage)
      BY <1>1 DEF DeviceSteps
    <2> QED BY <1>0, <1>1, <2>1, ProgressKeepsNewImage DEF DeviceSteps
  <1>2. CASE DeviceFails
    <2>1. faults' = faults + 1
      BY <1>2 DEF DeviceFails, PowerLoss, FlashError, SectorLost, Fault
    <2> QED BY <1>0, <2>1
  <1>3. CASE OtherRequest
    BY <1>0, <1>3 DEF OtherRequest
  <1>4. CASE CommandArrives
    <2>1. pc' # "rollback"
      BY <1>4 DEF CommandArrives
    <2>2. Begin([image |-> NewImage, crc |-> NoCrc])
      BY <1>4, <2>1 DEF CommandArrives, RequestFails, RollBack
    <2> QED BY <1>0, <2>2, BeginKeepsNewImage
  <1>5. CASE UNCHANGED vars
    BY <1>5 DEF vars, OnlyNewImage, NoneValid, Selected, Target
  <1> QED BY <1>1, <1>2, <1>3, <1>4, <1>5
          DEF FlashNext, CommandLost, DevicePublishes, HostSteps, SeesDownload, HostDrains,
              TriggerTimesOut, HostReads, RebootTimesOut, HostMoves, flashVars

(* Every step keeps FlashFits. *)
LEMMA NextFlashFits ==
    ASSUME FlashFits, IInv, BootedFits, FaultFree, [FlashNext]_flashVars
    PROVE  FlashFits'
  <1>1. FlashTypeOK /\ FlashTypeOK'
    BY NextFlashTyped DEF FlashFits
  <1>2. SUFFICES ASSUME Undisturbed' PROVE OnlyNewImage' /\ ToldByABootedDevice'
    BY <1>1 DEF FlashFits
  <1>3. faults = 0
    BY <1>2, FlashNextIsNext, HistoryGrows DEF Undisturbed, IInv
  <1>4. ~spoiled
    <2>1. CASE DeviceSteps \/ CommandArrives
      BY <1>2, <2>1 DEF DeviceSteps, CommandArrives, Undisturbed
    <2>2. CASE ~DeviceSteps /\ ~CommandArrives
      BY <1>2, <2>2 DEF Undisturbed, FlashNext, flashVars, hostVars, DeviceFails, OtherRequest,
         CommandLost, DevicePublishes, HostSteps, SeesDownload, HostDrains, TriggerTimesOut,
         HostReads, RebootTimesOut, HostMoves
    <2> QED BY <2>1, <2>2
  <1>5. host.phase # "off"
    <2> SUFFICES ASSUME host.phase = "off" PROVE host'.phase = "off"
      BY <1>2 DEF Undisturbed
    <2> QED BY DEF FlashNext, flashVars, hostVars, DeviceSteps, DeviceFails, OtherRequest,
         CommandArrives, CommandLost, DevicePublishes, HostSteps, SeesDownload, HostDrains,
         TriggerTimesOut, HostReads, RebootTimesOut
  <1>6. Undisturbed /\ OnlyNewImage /\ ToldByABootedDevice
    BY <1>3, <1>4, <1>5 DEF Undisturbed, FlashFits
  <1> QED BY <1>1, <1>2, <1>6, NextTold, NextOnlyNewImage DEF Undisturbed

(* What the flasher has verified stays, whatever the bounds: also while a  *)
(* command that it published again starts a second update.                 *)
THEOREM VerifiedImageStays == FlashSpec => []VerifiedStays
  <1>1. IInv /\ FaultFree /\ FlashFits => VerifiedStays
    <2> SUFFICES ASSUME IInv, FaultFree, FlashFits, host.phase = "verified", faults = 0, ~spoiled
                 PROVE  \E p \in Partitions : Boots(slots, Bootable) = p /\ part[p] = NewImage
      BY DEF VerifiedStays
    <2>1. OnlyNewImage /\ everValid
      BY DEF FlashFits, Undisturbed, ToldByABootedDevice
    <2>2. ~NoneValid(slots) /\ slots \in [Slots -> Nat]
      BY <2>1, AnEntryIsValid DEF IInv, TypeOK
    <2>3. Selected(slots) \in Partitions /\ part[Selected(slots)] = NewImage
      BY <2>1, <2>2, SelectedIsDetected DEF OnlyNewImage
    <2>4. Selected(slots) \in Bootable
      BY <2>3, FlashAssumption DEF Bootable, Images
    <2> QED BY <2>3, <2>4 DEF Boots
  <1>2. FlashInit => FlashFits /\ IInv /\ BootedFits /\ FaultFree
    BY InitFlashFits, InitFits, InitBooted, InitFaultFree DEF FlashInit
  <1> DEFINE Fits == FlashFits /\ IInv /\ BootedFits /\ FaultFree
  <1>3. Fits /\ [FlashNext]_flashVars => Fits'
    BY FlashNextIsNext, NextFlashFits, NextFits, NextBooted, NextFaultFree
  <1> QED BY <1>1, <1>2, <1>3, PTL DEF FlashSpec
=============================================================================
