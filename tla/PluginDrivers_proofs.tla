------------------------- MODULE PluginDrivers_proofs -------------------------
(***************************************************************************)
(* Proofs about PluginDrivers, for any number of decoders.  Whatever calls *)
(* fail and whoever closes whose descriptors, a closed decoder has no      *)
(* descriptor left: what a decoder has open under some number it also      *)
(* records under that number, and where it is in its code bounds what it   *)
(* can have open.  When Init can only fail in its last open and there are  *)
(* descriptors and instances for all decoders, what each of them works on  *)
(* is its own: its descriptors, and the instance it was given.             *)
(***************************************************************************)
EXTENDS PluginDrivers, FiniteSetTheorems, TLAPS

------------------------------------------------------------------------------
(* Type correctness.                                                       *)

(* A change of one decoder's descriptor stays in the type. *)
LEMMA SetFdType ==
  ASSUME DriversTypeOK, NEW d \in Decoders, NEW dev \in Devices,
         NEW f \in Descriptors \cup {Closed}
  PROVE  [fd EXCEPT ![d][dev] = f] \in [Decoders -> [Devices -> Descriptors \cup {Closed}]]
BY DEF DriversTypeOK

(* open, successful or not, keeps both tables of descriptors in their types. *)
LEMMA OpenType ==
  ASSUME DriversTypeOK, NEW d \in Decoders, NEW dev \in Devices, NEW next,
         Open(d, dev, next) \/ OpenFails(d, dev)
  PROVE  /\ fd' \in [Decoders -> [Devices -> Descriptors \cup {Closed}]]
         /\ table' \in [Descriptors -> (Decoders \X Devices) \cup {Free, App}]
<1>1. CASE Open(d, dev, next)
  <2>1. PICK f \in FreeDescriptors :
          /\ table' = [table EXCEPT ![f] = <<d, dev>>]
          /\ fd' = [fd EXCEPT ![d][dev] = f]
    BY <1>1 DEF Open
  <2>2. f \in Descriptors
    BY DEF FreeDescriptors
  <2>3. QED
    BY <2>1, <2>2, SetFdType DEF DriversTypeOK
<1>2. CASE OpenFails(d, dev)
  BY <1>2, SetFdType DEF OpenFails, DriversTypeOK
<1>3. QED
  BY <1>1, <1>2

(* So does close. *)
LEMMA CloseType ==
  ASSUME DriversTypeOK, NEW d \in Decoders, NEW dev \in Devices, Close(d, dev)
  PROVE  /\ fd' \in [Decoders -> [Devices -> Descriptors \cup {Closed}]]
         /\ table' \in [Descriptors -> (Decoders \X Devices) \cup {Free, App}]
<1>1. fd' = fd \/ fd' = [fd EXCEPT ![d][dev] = Closed]
  BY DEF Close
<1>2. table' = table \/ table' = [table EXCEPT ![fd[d][dev]] = Free]
  BY DEF Close
<1>3. [fd EXCEPT ![d][dev] = Closed] \in [Decoders -> [Devices -> Descriptors \cup {Closed}]]
  BY SetFdType
<1>4. table' \in [Descriptors -> (Decoders \X Devices) \cup {Free, App}]
  BY <1>2 DEF DriversTypeOK
<1>5. QED
  BY <1>1, <1>3, <1>4 DEF DriversTypeOK

(* A decoder that goes on to a stage without an instance, or keeps the     *)
(* instance it has, leaves the types of its own variables.                 *)
LEMMA GotoType ==
  ASSUME DriversTypeOK, NEW d \in Decoders, NEW next \in Stages, Goto(d, next),
         UNCHANGED iNumOfInst, HasInstance(next) => HasInstance(pc[d])
  PROVE  /\ pc' \in [Decoders -> Stages]
         /\ \A e \in Decoders : HasInstance(pc'[e]) => iNumOfInst'[e] \in InstanceIdx
BY DEF DriversTypeOK, Goto

(* Type correctness is inductive by itself. *)
LEMMA DriversTypeStep ==
  /\ Init => DriversTypeOK
  /\ DriversTypeOK /\ [Next]_vars => DriversTypeOK'
<1> USE DEF Opening, Closing, Stages, HasInstance
<1>1. Init => DriversTypeOK
  BY DriverConstants DEF Init, DriversTypeOK, Closed, NoInstance
<1>2. ASSUME DriversTypeOK, NEW d \in Decoders, OpenMgr(d) \/ OpenVpu(d) \/ OpenMem(d)
      PROVE  DriversTypeOK'
  <2>1. PICK dev \in Devices, next \in Stages :
          /\ Open(d, dev, next) \/ OpenFails(d, dev)
          /\ HasInstance(next) => HasInstance(pc[d])
    BY <1>2 DEF OpenMgr, OpenVpu, OpenMem, Devices
  <2>2. \E s \in {next, "clear"} : Goto(d, s)
    BY <2>1 DEF Open, OpenFails
  <2>3. UNCHANGED <<iNumOfInst, instanceOf>> /\ bInited' \in [Decoders -> BOOLEAN]
    BY <1>2 DEF OpenMgr, OpenVpu, OpenMem, DriversTypeOK
  <2>4. QED
    BY <1>2, <2>1, <2>2, <2>3, OpenType, GotoType DEF DriversTypeOK
<1>3. ASSUME DriversTypeOK, NEW d \in Decoders, CloseMgr(d) \/ CloseVpu(d) \/ CloseMem(d)
      PROVE  DriversTypeOK'
  <2>1. PICK dev \in Devices, next \in {"close_vpu", "close_mem", "closed"} :
          Close(d, dev) /\ Goto(d, next)
    BY <1>3 DEF CloseMgr, CloseVpu, CloseMem, Devices
  <2>2. UNCHANGED <<iNumOfInst, bInited, instanceOf>>
    BY <1>3 DEF CloseMgr, CloseVpu, CloseMem
  <2>3. QED
    BY <1>3, <2>1, <2>2, CloseType, GotoType DEF DriversTypeOK
<1>4. ASSUME DriversTypeOK, NEW d \in Decoders, PluginInit(d)
      PROVE  DriversTypeOK'
  <2>1. fd' \in [Decoders -> [Devices -> Descriptors \cup {Closed}]]
    BY <1>4, DriverConstants DEF PluginInit, DriversTypeOK
  <2>2. /\ pc' \in [Decoders -> Stages]
        /\ \A e \in Decoders : HasInstance(pc'[e]) => iNumOfInst'[e] \in InstanceIdx
    BY <1>4 DEF PluginInit, Goto, DriversTypeOK
  <2>3. QED
    BY <1>4, <2>1, <2>2 DEF PluginInit, DriversTypeOK
<1>5. ASSUME DriversTypeOK, NEW d \in Decoders, GetInstance(d)
      PROVE  DriversTypeOK'
  <2>1. CASE UNCHANGED <<instanceOf, iNumOfInst>> /\ Goto(d, "clear")
    BY <1>5, <2>1, GotoType DEF GetInstance, DriversTypeOK
  <2>2. CASE Goto(d, "mode") /\ \E i \in FreeInstances : GetInstanceIdx(d, i)
    <3>1. PICK i \in InstanceIdx : GetInstanceIdx(d, i)
      BY <2>2 DEF FreeInstances
    <3>2. QED
      BY <1>5, <2>2, <3>1 DEF GetInstance, GetInstanceIdx, Goto, DriversTypeOK
  <2>3. QED
    BY <1>5, <2>1, <2>2 DEF GetInstance
<1>6. ASSUME DriversTypeOK, NEW d \in Decoders,
             SetMemAllocMode(d) \/ DeviceInitialize(d) \/ PluginDeinit(d)
      PROVE  DriversTypeOK'
  <2>1. PICK next \in Stages : Goto(d, next) /\ (HasInstance(next) => HasInstance(pc[d]))
    BY <1>6 DEF SetMemAllocMode, DeviceInitialize, PluginDeinit, Ioctl
  <2>2. UNCHANGED <<fd, iNumOfInst, bInited, table, instanceOf>>
    BY <1>6 DEF SetMemAllocMode, DeviceInitialize, PluginDeinit, Ioctl
  <2>3. QED
    BY <1>6, <2>1, <2>2, GotoType DEF DriversTypeOK
<1>7. ASSUME DriversTypeOK, NEW d \in Decoders, ClearInstance(d)
      PROVE  DriversTypeOK'
  BY <1>7 DEF ClearInstance, Goto, DriversTypeOK, NoInstance
<1>8. ASSUME DriversTypeOK, UNCHANGED vars
      PROVE  DriversTypeOK'
  BY <1>8 DEF vars, DriversTypeOK
<1>9. DriversTypeOK /\ [Next]_vars => DriversTypeOK'
  BY <1>2, <1>3, <1>4, <1>5, <1>6, <1>7, <1>8 DEF Next
<1>10. QED
  BY <1>1, <1>9

THEOREM DriversTypeCorrect == Spec => []DriversTypeOK
BY DriversTypeStep, PTL DEF Spec

------------------------------------------------------------------------------
(* Nothing is left open.                                                   *)

(* What a decoder can have open where it is in its code. *)
MayHaveOpen(p) ==
  IF p \in {"closed", "open_mgr"} THEN {}
  ELSE IF p \in {"instance", "mode", "open_vpu"} THEN {"mgr"}
  ELSE IF p \in {"device", "open_mem"} THEN {"mgr", "vpu"}
  ELSE IF p = "close_vpu" THEN {"vpu", "mem"}
  ELSE IF p = "close_mem" THEN {"mem"} ELSE Devices

(* What a decoder has open it also records, at the stages that allow it. *)
Recorded ==
  \A d \in Decoders, dev \in Devices, f \in Descriptors :
    table[f] = <<d, dev>> => fd[d][dev] = f /\ dev \in MayHaveOpen(pc[d])

(* Opening a device that cannot be open yet keeps the records complete. *)
LEMMA OpenRecorded ==
  ASSUME DriversTypeOK, Recorded, NEW d \in Decoders, NEW dev \in Devices, NEW next,
         Open(d, dev, next) \/ OpenFails(d, dev),
         dev \notin MayHaveOpen(pc[d]),
         MayHaveOpen(pc[d]) \cup {dev} \subseteq MayHaveOpen(next)
  PROVE  Recorded'
<1>1. SUFFICES ASSUME NEW e \in Decoders, NEW v \in Devices, NEW g \in Descriptors,
                      table'[g] = <<e, v>>
               PROVE  fd'[e][v] = g /\ v \in MayHaveOpen(pc'[e])
  BY DEF Recorded
<1>2. CASE Open(d, dev, next)
  <2>1. PICK f \in Descriptors :
          /\ table' = [table EXCEPT ![f] = <<d, dev>>]
          /\ fd' = [fd EXCEPT ![d][dev] = f]
          /\ pc' = [pc EXCEPT ![d] = next]
    BY <1>2 DEF Open, FreeDescriptors, Goto
  <2>2. CASE g = f
    <3>1. e = d /\ v = dev
      BY <1>1, <2>1, <2>2 DEF DriversTypeOK
    <3>2. QED
      BY <2>1, <2>2, <3>1 DEF DriversTypeOK
  <2>3. CASE g # f
    <3>1. table[g] = <<e, v>>
      BY <1>1, <2>1, <2>3 DEF DriversTypeOK
    <3>2. fd[e][v] = g /\ v \in MayHaveOpen(pc[e])
      BY <3>1 DEF Recorded
    <3>3. e # d \/ v # dev
      BY <3>2
    <3>4. fd'[e][v] = fd[e][v]
      BY <2>1, <3>3 DEF DriversTypeOK
    <3>5. v \in MayHaveOpen(pc'[e])
      BY <2>1, <3>2 DEF DriversTypeOK
    <3>6. QED
      BY <3>2, <3>4, <3>5
  <2>4. QED
    BY <2>2, <2>3
<1>3. CASE OpenFails(d, dev)
  <2>1. /\ table[g] = <<e, v>>
        /\ fd' = [fd EXCEPT ![d][dev] = Closed]
        /\ pc' = [pc EXCEPT ![d] = "clear"]
    BY <1>1, <1>3 DEF OpenFails, Goto
  <2>2. fd[e][v] = g /\ v \in MayHaveOpen(pc[e])
    BY <2>1 DEF Recorded
  <2>3. e # d \/ v # dev
    BY <2>2
  <2>4. fd'[e][v] = fd[e][v]
    BY <2>1, <2>3 DEF DriversTypeOK
  <2>5. v \in MayHaveOpen(pc'[e])
    BY <2>1, <2>2 DEF DriversTypeOK, MayHaveOpen
  <2>6. QED
    BY <2>2, <2>4, <2>5
<1>4. QED
  BY <1>2, <1>3

(* Closing a device leaves nothing open under its record, even when the    *)
(* descriptor closed was somebody else's by then.                          *)
LEMMA CloseRecorded ==
  ASSUME DriversTypeOK, Recorded, NEW d \in Decoders, NEW dev \in Devices, NEW next,
         Close(d, dev), Goto(d, next),
         MayHaveOpen(pc[d]) \ {dev} \subseteq MayHaveOpen(next)
  PROVE  Recorded'
<1>1. SUFFICES ASSUME NEW e \in Decoders, NEW v \in Devices, NEW g \in Descriptors,
                      table'[g] = <<e, v>>
               PROVE  fd'[e][v] = g /\ v \in MayHaveOpen(pc'[e])
  BY DEF Recorded
<1>2. <<e, v>> # Free
  BY DriverConstants DEF Free
<1>3. /\ table[g] = <<e, v>>
      /\ fd[d][dev] # Closed => fd[d][dev] # g
  BY <1>1, <1>2 DEF Close, DriversTypeOK
<1>4. fd[e][v] = g /\ v \in MayHaveOpen(pc[e])
  BY <1>3 DEF Recorded
<1>5. g # Closed
  BY DriverConstants DEF Closed
<1>6. e # d \/ v # dev
  BY <1>3, <1>4, <1>5
<1>7. fd'[e][v] = fd[e][v]
  BY <1>6 DEF Close, DriversTypeOK
<1>8. v \in MayHaveOpen(pc'[e])
  BY <1>4, <1>6 DEF Goto, DriversTypeOK
<1>9. QED
  BY <1>4, <1>7, <1>8

(* Steps that open and close nothing. *)
LEMMA GotoRecorded ==
  ASSUME DriversTypeOK, Recorded, NEW d \in Decoders, NEW next, Goto(d, next),
         UNCHANGED <<fd, table>>, MayHaveOpen(pc[d]) \subseteq MayHaveOpen(next)
  PROVE  Recorded'
BY DEF Goto, Recorded, DriversTypeOK

(* The records are complete in every state. *)
LEMMA RecordedStep ==
  /\ Init => Recorded
  /\ DriversTypeOK /\ Recorded /\ [Next]_vars => Recorded'
<1>1. Init => Recorded
  BY DriverConstants DEF Init, Recorded, Free, App
<1>2. ASSUME DriversTypeOK, Recorded, NEW d \in Decoders,
             OpenMgr(d) \/ OpenVpu(d) \/ OpenMem(d)
      PROVE  Recorded'
  <2>1. CASE OpenMgr(d)
    BY <1>2, <2>1, OpenRecorded DEF OpenMgr, MayHaveOpen, Devices
  <2>2. CASE OpenVpu(d)
    BY <1>2, <2>2, OpenRecorded DEF OpenVpu, MayHaveOpen, Devices
  <2>3. CASE OpenMem(d)
    BY <1>2, <2>3, OpenRecorded DEF OpenMem, MayHaveOpen, Devices
  <2>4. QED
    BY <1>2, <2>1, <2>2, <2>3
<1>3. ASSUME DriversTypeOK, Recorded, NEW d \in Decoders,
             CloseMgr(d) \/ CloseVpu(d) \/ CloseMem(d)
      PROVE  Recorded'
  <2>1. CASE CloseMgr(d)
    BY <1>3, <2>1, CloseRecorded DEF CloseMgr, MayHaveOpen, Devices
  <2>2. CASE CloseVpu(d)
    BY <1>3, <2>2, CloseRecorded DEF CloseVpu, MayHaveOpen, Devices
  <2>3. CASE CloseMem(d)
    BY <1>3, <2>3, CloseRecorded DEF CloseMem, MayHaveOpen, Devices
  <2>4. QED
    BY <1>3, <2>1, <2>2, <2>3
<1>4. ASSUME DriversTypeOK, Recorded, NEW d \in Decoders, PluginInit(d)
      PROVE  Recorded'
  BY <1>4 DEF PluginInit, Goto, Recorded, MayHaveOpen, DriversTypeOK
<1>5. ASSUME DriversTypeOK, Recorded, NEW d \in Decoders,
             GetInstance(d) \/ SetMemAllocMode(d) \/ DeviceInitialize(d) \/ PluginDeinit(d) \/ ClearInstance(d)
      PROVE  Recorded'
  <2>1. PICK next : Goto(d, next) /\ MayHaveOpen(pc[d]) \subseteq MayHaveOpen(next)
    BY <1>5 DEF GetInstance, SetMemAllocMode, DeviceInitialize, Ioctl, PluginDeinit,
                ClearInstance, MayHaveOpen, Devices
  <2>2. UNCHANGED <<fd, table>>
    BY <1>5 DEF GetInstance, SetMemAllocMode, DeviceInitialize, Ioctl, PluginDeinit, ClearInstance
  <2>3. QED
    BY <1>5, <2>1, <2>2, GotoRecorded
<1>6. ASSUME Recorded, UNCHANGED vars
      PROVE  Recorded'
  BY <1>6 DEF vars, Recorded
<1>7. DriversTypeOK /\ Recorded /\ [Next]_vars => Recorded'
  BY <1>2, <1>3, <1>4, <1>5, <1>6 DEF Next
<1>8. QED
  BY <1>1, <1>7

(* A decoder that is closed may have nothing open.                         *)
LEMMA RecordedLeavesNothing ==
  DriversTypeOK /\ Recorded => NoDescriptorLeft
<1>1. SUFFICES ASSUME DriversTypeOK, Recorded, NEW d \in Decoders, pc[d] = "closed",
                      NEW f \in Descriptors, table[f][1] = d
               PROVE  FALSE
  BY DEF NoDescriptorLeft
<1>2. table[f] # Free /\ table[f] # App
  BY <1>1, DriverConstants DEF Free, App
<1>3. PICK dev \in Devices : table[f] = <<d, dev>>
  BY <1>1, <1>2 DEF DriversTypeOK
<1>4. QED
  BY <1>1, <1>3 DEF Recorded, MayHaveOpen

LEMMA RecordedHolds == Spec => []Recorded
BY DriversTypeCorrect, RecordedStep, PTL DEF Spec

(* close_drivers undoes whatever part of open_drivers was done             *)
(* (decoder_plugin_video_common.c:237): a closed decoder has no descriptor *)
(* open, whatever calls fail and whatever other decoders do.               *)
THEOREM NothingLeftOpen == Spec => []NoDescriptorLeft
BY DriversTypeCorrect, RecordedHolds, RecordedLeavesNothing, PTL

------------------------------------------------------------------------------
(* Ownership, when Init can fail in its last open alone and neither table  *)
(* is too small.                                                           *)

(* Enough instances and descriptors for all decoders, and the application's*)
(* descriptor 0; the opens and ioctls before the last one do not fail of   *)
(* their own.  Otherwise Init fails with zeroed descriptors in the handle, *)
(* and close_drivers closes descriptor 0 (the run open_failure).           *)
Roomy ==
  /\ Faults \subseteq {"mem"}
  /\ IsFiniteSet(Decoders)
  /\ Cardinality(Decoders) <= Instances
  /\ Cardinality(Descriptors) > 3 * Cardinality(Decoders)

(* The devices a decoder has open for certain. *)
MustHaveOpen(p) ==
  IF p \in Closing THEN {} ELSE MayHaveOpen(p)

Owned(d, dev) == fd[d][dev] \in Descriptors /\ table[fd[d][dev]] = <<d, dev>>

(* A descriptor of an open device is that of the device it was opened for; *)
(* while closing it is that or none.                                       *)
OwnInv ==
  /\ \A f \in Descriptors : table[f] = App <=> f = 0
  /\ \A d \in Decoders, dev \in Devices :
       /\ dev \in MustHaveOpen(pc[d]) => Owned(d, dev)
       /\ pc[d] \in Closing \cup {"closed"} => fd[d][dev] = Closed \/ Owned(d, dev)

(* An instance is held from GET_INSTANCE_IDX to CLEAR_INSTANCE_IDX, which  *)
(* needs the manager.                                                      *)
HoldsInstance(d) == HasInstance(pc[d]) \/ (pc[d] = "clear" /\ fd[d]["mgr"] # Closed)

InstanceInv ==
  /\ \A d \in Decoders : HoldsInstance(d) =>
       iNumOfInst[d] \in InstanceIdx /\ instanceOf[iNumOfInst[d]] = d
  /\ \A i \in InstanceIdx, d \in Decoders :
       instanceOf[i] = d => HoldsInstance(d) /\ iNumOfInst[d] = i

DriverInv == DriversTypeOK /\ Recorded /\ OwnInv /\ InstanceInv

(* There are three devices. *)
LEMMA ThreeDevices == IsFiniteSet(Devices) /\ Cardinality(Devices) = 3
<1>1. IsFiniteSet({"mgr"}) /\ Cardinality({"mgr"}) = 1
  BY FS_Singleton
<1>2. IsFiniteSet({"mgr"} \cup {"vpu"}) /\ Cardinality({"mgr"} \cup {"vpu"}) = 2
  BY <1>1, FS_AddElement
<1>3. /\ IsFiniteSet(({"mgr"} \cup {"vpu"}) \cup {"mem"})
      /\ Cardinality(({"mgr"} \cup {"vpu"}) \cup {"mem"}) = 3
  BY <1>2, FS_AddElement
<1>4. ({"mgr"} \cup {"vpu"}) \cup {"mem"} = Devices
  BY DEF Devices
<1>5. QED
  BY <1>3, <1>4

(* A decoder about to open a device finds a descriptor: the others and its *)
(* own devices cannot use up the table.                                    *)
LEMMA DescriptorFree ==
  ASSUME Roomy, DriverInv, NEW d \in Decoders, NEW dev \in Devices,
         dev \notin MayHaveOpen(pc[d])
  PROVE  FreeDescriptors # {}
<1> DEFINE used == Descriptors \ {0}
           open == (Decoders \X Devices) \ {<<d, dev>>}
<1>1. SUFFICES ASSUME FreeDescriptors = {} PROVE FALSE
  OBVIOUS
<1>2. \A f \in used : table[f] \in open
  <2>1. SUFFICES ASSUME NEW f \in used PROVE table[f] \in open
    OBVIOUS
  <2>2. table[f] # Free
    BY <1>1 DEF FreeDescriptors
  <2>3. table[f] # App
    BY DEF DriverInv, OwnInv
  <2>4. table[f] # <<d, dev>>
    BY DEF DriverInv, Recorded
  <2>5. QED
    BY <2>2, <2>3, <2>4 DEF DriverInv, DriversTypeOK
<1>3. \A f, g \in used : table[f] = table[g] => f = g
  <2>1. SUFFICES ASSUME NEW f \in used, NEW g \in used, table[f] = table[g]
                 PROVE  f = g
    OBVIOUS
  <2>2. PICK e \in Decoders, v \in Devices : table[f] = <<e, v>>
    BY <1>2
  <2>3. table[g] = <<e, v>> /\ f \in Descriptors /\ g \in Descriptors
    BY <2>1, <2>2
  <2>4. Recorded
    BY DEF DriverInv
  <2>5. fd[e][v] = f /\ fd[e][v] = g
    BY <2>2, <2>3, <2>4 DEF Recorded
  <2>6. QED
    BY <2>5
<1>4. /\ IsFiniteSet(Decoders \X Devices)
      /\ Cardinality(Decoders \X Devices) = Cardinality(Decoders) * 3
  BY ThreeDevices, FS_Product DEF Roomy
<1>5. Cardinality(Decoders) \in Nat
  BY FS_CardinalityType DEF Roomy
<1>6. /\ IsFiniteSet(open)
      /\ Cardinality(open) = Cardinality(Decoders) * 3 - 1
  <2>1. <<d, dev>> \in Decoders \X Devices
    OBVIOUS
  <2>2. QED
    BY <1>4, <2>1, FS_RemoveElement
<1>7. /\ IsFiniteSet(used)
      /\ Cardinality(used) = Cardinality(Descriptors) - 1
      /\ Cardinality(Descriptors) \in Nat
  BY FS_RemoveElement, FS_CardinalityType, DriverConstants
<1>8. Cardinality(open) < Cardinality(used)
  BY <1>5, <1>6, <1>7 DEF Roomy
<1> DEFINE owner == [f \in used |-> table[f]]
<1>9. owner \in [used -> open] /\ \A f \in used : owner[f] = table[f]
  BY <1>2
<1> HIDE DEF used, open, owner
<1>10. \E f, g \in used : f # g /\ owner[f] = owner[g]
  BY <1>6, <1>7, <1>8, <1>9, FS_PigeonHole
<1>11. QED
  BY <1>3, <1>9, <1>10

(* A decoder that has no instance yet finds one. *)
LEMMA InstanceFree ==
  ASSUME Roomy, DriverInv, NEW d \in Decoders, ~HoldsInstance(d)
  PROVE  FreeInstances # {}
<1> DEFINE others == Decoders \ {d}
<1>1. SUFFICES ASSUME FreeInstances = {} PROVE FALSE
  OBVIOUS
<1>2. \A i \in InstanceIdx : instanceOf[i] \in others
  BY <1>1 DEF FreeInstances, DriverInv, DriversTypeOK, InstanceInv
<1>3. \A i, j \in InstanceIdx : instanceOf[i] = instanceOf[j] => i = j
  BY <1>2 DEF DriverInv, InstanceInv
<1>4. Cardinality(Decoders) \in Nat
  BY FS_CardinalityType DEF Roomy
<1>5. IsFiniteSet(others) /\ Cardinality(others) = Cardinality(Decoders) - 1
  BY FS_RemoveElement DEF Roomy
<1>6. IsFiniteSet(InstanceIdx) /\ Cardinality(InstanceIdx) = Instances
  <2>1. Instances \in Nat
    BY DriverConstants
  <2>2. /\ IsFiniteSet(0..(Instances - 1))
        /\ Cardinality(0..(Instances - 1)) =
             IF 0 > Instances - 1 THEN 0 ELSE (Instances - 1) - 0 + 1
    BY <2>1, FS_Interval
  <2>3. QED
    BY <2>1, <2>2 DEF InstanceIdx
<1>7. Cardinality(others) < Cardinality(InstanceIdx)
  BY <1>4, <1>5, <1>6, DriverConstants DEF Roomy
<1>8. instanceOf \in [InstanceIdx -> others]
  BY <1>2 DEF DriverInv, DriversTypeOK
<1> HIDE DEF others
<1>9. \E i, j \in InstanceIdx : i # j /\ instanceOf[i] = instanceOf[j]
  BY <1>5, <1>6, <1>7, <1>8, FS_PigeonHole
<1>10. QED
  BY <1>3, <1>9

(* Opening the next device: the lowest free descriptor becomes its own,    *)
(* and nobody else's is touched.                                           *)
LEMMA OpenOwn ==
  ASSUME DriverInv, NEW d \in Decoders, NEW dev \in Devices, NEW next,
         Open(d, dev, next), next \notin Closing \cup {"closed"},
         dev \notin MustHaveOpen(pc[d]),
         MustHaveOpen(next) \subseteq MustHaveOpen(pc[d]) \cup {dev}
  PROVE  OwnInv'
<1>1. PICK f \in Descriptors :
        /\ table[f] = Free
        /\ table' = [table EXCEPT ![f] = <<d, dev>>]
        /\ fd' = [fd EXCEPT ![d][dev] = f]
        /\ pc' = [pc EXCEPT ![d] = next]
  BY DEF Open, FreeDescriptors, Goto
<1>2. \A e \in Decoders, v \in Devices : <<e, v>> # Free /\ <<e, v>> # App
  BY DriverConstants DEF Free, App
<1>3. \A g \in Descriptors : table'[g] = App <=> g = 0
  BY <1>1, <1>2 DEF DriverInv, DriversTypeOK, OwnInv, Free, App
<1>4. ASSUME NEW e \in Decoders, NEW v \in Devices, e # d \/ v # dev
      PROVE  fd'[e][v] = fd[e][v] /\ (Owned(e, v) => Owned(e, v)')
  <2>1. fd'[e][v] = fd[e][v]
    BY <1>1, <1>4 DEF DriverInv, DriversTypeOK
  <2>2. Owned(e, v) => fd[e][v] # f
    BY <1>1, <1>2 DEF Owned
  <2>3. QED
    BY <1>1, <2>1, <2>2 DEF Owned, DriverInv, DriversTypeOK
<1>5. Owned(d, dev)'
  BY <1>1 DEF Owned, DriverInv, DriversTypeOK
<1>6. ASSUME NEW e \in Decoders, NEW v \in Devices
      PROVE  /\ v \in MustHaveOpen(pc'[e]) => Owned(e, v)'
             /\ pc'[e] \in Closing \cup {"closed"} => fd'[e][v] = Closed \/ Owned(e, v)'
  <2>1. CASE e = d
    <3>1. pc'[e] = next
      BY <1>1, <2>1 DEF DriverInv, DriversTypeOK
    <3>2. v \in MustHaveOpen(next) => Owned(e, v)'
      BY <1>4, <1>5, <2>1 DEF DriverInv, OwnInv
    <3>3. QED
      BY <3>1, <3>2
  <2>2. CASE e # d
    <3>1. pc'[e] = pc[e]
      BY <1>1, <2>2 DEF DriverInv, DriversTypeOK
    <3>2. QED
      BY <1>4, <2>2, <3>1 DEF DriverInv, OwnInv
  <2>3. QED
    BY <2>1, <2>2
<1>7. QED
  BY <1>3, <1>6 DEF OwnInv

(* Closing frees the decoder's own descriptor, or nothing.                 *)
LEMMA CloseOwn ==
  ASSUME DriverInv, NEW d \in Decoders, NEW dev \in Devices, NEW next,
         Close(d, dev), Goto(d, next), pc[d] \in Closing, next \in Closing \cup {"closed"},
         MustHaveOpen(next) = {}
  PROVE  OwnInv'
<1>1. fd[d][dev] = Closed \/ Owned(d, dev)
  BY DEF DriverInv, OwnInv
<1>2. pc' = [pc EXCEPT ![d] = next]
  BY DEF Goto
<1>3. CASE fd[d][dev] = Closed
  <2>1. UNCHANGED <<fd, table>>
    BY <1>3 DEF Close
  <2>2. QED
    BY <1>2, <2>1 DEF DriverInv, DriversTypeOK, OwnInv, Owned
<1>4. CASE fd[d][dev] # Closed
  <2> DEFINE f == fd[d][dev]
  <2>1. /\ f \in Descriptors /\ table[f] = <<d, dev>>
        /\ table' = [table EXCEPT ![f] = Free]
        /\ fd' = [fd EXCEPT ![d][dev] = Closed]
    BY <1>1, <1>4 DEF Close, Owned
  <2>2. Free # App /\ <<d, dev>> # App
    BY DriverConstants DEF Free, App
  <2>3. \A g \in Descriptors : table'[g] = App <=> g = 0
    BY <2>1, <2>2 DEF DriverInv, DriversTypeOK, OwnInv
  <2>4. ASSUME NEW e \in Decoders, NEW v \in Devices, e # d \/ v # dev
        PROVE  fd'[e][v] = fd[e][v] /\ (Owned(e, v) => Owned(e, v)')
    <3>1. fd'[e][v] = fd[e][v]
      BY <2>1, <2>4 DEF DriverInv, DriversTypeOK
    <3>2. Owned(e, v) => fd[e][v] # f
      BY <2>1, <2>4 DEF Owned
    <3>3. QED
      BY <2>1, <3>1, <3>2 DEF Owned, DriverInv, DriversTypeOK
  <2>5. fd'[d][dev] = Closed
    BY <2>1 DEF DriverInv, DriversTypeOK
  <2>6. ASSUME NEW e \in Decoders, NEW v \in Devices
        PROVE  /\ v \in MustHaveOpen(pc'[e]) => Owned(e, v)'
               /\ pc'[e] \in Closing \cup {"closed"} => fd'[e][v] = Closed \/ Owned(e, v)'
    <3>1. CASE e = d
      <4>1. pc'[e] = next
        BY <1>2, <3>1 DEF DriverInv, DriversTypeOK
      <4>2. QED
        BY <2>4, <2>5, <3>1, <4>1 DEF DriverInv, OwnInv
    <3>2. CASE e # d
      <4>1. pc'[e] = pc[e]
        BY <1>2, <3>2 DEF DriverInv, DriversTypeOK
      <4>2. QED
        BY <2>4, <3>2, <4>1 DEF DriverInv, OwnInv
    <3>3. QED
      BY <3>1, <3>2
  <2>7. QED
    BY <2>3, <2>6 DEF OwnInv
<1>5. QED
  BY <1>3, <1>4

(* Going on without opening or closing anything.                           *)
LEMMA GotoOwn ==
  ASSUME DriverInv, NEW d \in Decoders, NEW next, Goto(d, next),
         UNCHANGED <<fd, table>>,
         MustHaveOpen(next) \subseteq MustHaveOpen(pc[d]),
         next \in Closing \cup {"closed"} =>
           \A dev \in Devices : fd[d][dev] = Closed \/ Owned(d, dev)
  PROVE  OwnInv'
BY DEF DriverInv, DriversTypeOK, OwnInv, Owned, Goto

(* A step of d that keeps its instance, or its having none.                *)
LEMMA KeepInstance ==
  ASSUME DriverInv, NEW d \in Decoders, NEW next, Goto(d, next),
         UNCHANGED <<iNumOfInst, instanceOf>>,
         \A e \in Decoders : e # d => fd'[e] = fd[e],
         HoldsInstance(d) <=>
           HasInstance(next) \/ (next = "clear" /\ fd'[d]["mgr"] # Closed)
  PROVE  InstanceInv'
<1>1. pc' = [pc EXCEPT ![d] = next] /\ pc \in [Decoders -> Stages]
  BY DEF Goto, DriverInv, DriversTypeOK
<1>2. \A e \in Decoders : HoldsInstance(e)' <=> HoldsInstance(e)
  BY <1>1 DEF HoldsInstance
<1>3. QED
  BY <1>2 DEF DriverInv, InstanceInv

(* A step of one decoder keeps ownership of descriptors and instances.     *)
LEMMA OpeningOwn ==
  ASSUME Roomy, DriverInv, NEW d \in Decoders,
         OpenMgr(d) \/ OpenVpu(d) \/ OpenMem(d)
  PROVE  OwnInv' /\ InstanceInv'
<1> USE DEF MayHaveOpen, MustHaveOpen, Opening, Closing, HasInstance, Devices
<1>1. CASE OpenMgr(d)
  <2>1. FreeDescriptors # {}
    BY <1>1, DescriptorFree DEF OpenMgr
  <2>2. Open(d, "mgr", "instance")
    BY <1>1, <2>1 DEF OpenMgr, OpenFails, Roomy
  <2>3. OwnInv'
    BY <1>1, <2>2, OpenOwn DEF OpenMgr
  <2>4. Goto(d, "instance") /\ UNCHANGED <<iNumOfInst, instanceOf>>
        /\ \A e \in Decoders : e # d => fd'[e] = fd[e]
    BY <1>1, <2>2 DEF OpenMgr, Open, DriverInv, DriversTypeOK
  <2>5. InstanceInv'
    BY <1>1, <2>4, KeepInstance DEF OpenMgr, HoldsInstance
  <2>6. QED
    BY <2>3, <2>5
<1>2. CASE OpenVpu(d)
  <2>1. FreeDescriptors # {}
    BY <1>2, DescriptorFree DEF OpenVpu
  <2>2. Open(d, "vpu", "device")
    BY <1>2, <2>1 DEF OpenVpu, OpenFails, Roomy
  <2>3. OwnInv'
    BY <1>2, <2>2, OpenOwn DEF OpenVpu
  <2>4. Goto(d, "device") /\ UNCHANGED <<iNumOfInst, instanceOf>>
        /\ \A e \in Decoders : e # d => fd'[e] = fd[e]
    BY <1>2, <2>2 DEF OpenVpu, Open, DriverInv, DriversTypeOK
  <2>5. InstanceInv'
    BY <1>2, <2>4, KeepInstance DEF OpenVpu, HoldsInstance
  <2>6. QED
    BY <2>3, <2>5
<1>3. CASE OpenMem(d) /\ Open(d, "mem", "opened")
  <2>1. OwnInv'
    BY <1>3, OpenOwn DEF OpenMem
  <2>2. Goto(d, "opened") /\ UNCHANGED <<iNumOfInst, instanceOf>>
        /\ \A e \in Decoders : e # d => fd'[e] = fd[e]
    BY <1>3 DEF OpenMem, Open, DriverInv, DriversTypeOK
  <2>3. InstanceInv'
    BY <1>3, <2>2, KeepInstance DEF OpenMem, HoldsInstance
  <2>4. QED
    BY <2>1, <2>3
<1>4. CASE OpenMem(d) /\ OpenFails(d, "mem")
  <2>1. /\ pc[d] = "open_mem" /\ Goto(d, "clear")
        /\ fd' = [fd EXCEPT ![d]["mem"] = Closed]
        /\ UNCHANGED <<table, iNumOfInst, instanceOf>>
    BY <1>4 DEF OpenMem, OpenFails
  <2>2. /\ \A e \in Decoders : e # d => fd'[e] = fd[e]
        /\ fd'[d]["mem"] = Closed
        /\ \A dev \in {"mgr", "vpu"} : fd'[d][dev] = fd[d][dev] /\ Owned(d, dev)
    BY <2>1 DEF DriverInv, DriversTypeOK, OwnInv
  <2>3. pc' = [pc EXCEPT ![d] = "clear"] /\ pc \in [Decoders -> Stages]
    BY <2>1 DEF Goto, DriverInv, DriversTypeOK
  <2>4. OwnInv'
    <3>1. \A f \in Descriptors : table'[f] = App <=> f = 0
      BY <2>1 DEF DriverInv, OwnInv
    <3>2. ASSUME NEW e \in Decoders, NEW v \in Devices
          PROVE  /\ v \in MustHaveOpen(pc'[e]) => Owned(e, v)'
                 /\ pc'[e] \in Closing \cup {"closed"} => fd'[e][v] = Closed \/ Owned(e, v)'
      <4>1. CASE e = d
        <5>1. pc'[e] = "clear" /\ MustHaveOpen("clear") = {}
          BY <2>3, <4>1
        <5>2. fd'[e][v] = Closed \/ Owned(e, v)'
          BY <2>1, <2>2, <4>1 DEF Owned
        <5>3. QED
          BY <5>1, <5>2
      <4>2. CASE e # d
        <5>1. pc'[e] = pc[e] /\ fd'[e] = fd[e] /\ table' = table
          BY <2>1, <2>2, <2>3, <4>2
        <5>2. QED
          BY <5>1 DEF DriverInv, OwnInv, Owned
      <4>3. QED
        BY <4>1, <4>2
    <3>3. QED
      BY <3>1, <3>2 DEF OwnInv
  <2>5. fd'[d]["mgr"] # Closed
    BY <2>2, DriverConstants DEF Owned, Closed
  <2>6. InstanceInv'
    BY <2>1, <2>2, <2>5, KeepInstance DEF HoldsInstance
  <2>7. QED
    BY <2>4, <2>6
<1>5. QED
  BY <1>1, <1>2, <1>3, <1>4 DEF OpenMem

(* PluginInit gives the decoder a zeroed handle: it owns nothing yet.      *)
LEMMA InitOwn ==
  ASSUME DriverInv, NEW d \in Decoders, PluginInit(d)
  PROVE  OwnInv' /\ InstanceInv'
<1> USE DEF MayHaveOpen, MustHaveOpen, Opening, Closing, HasInstance, Devices
<1>1. /\ pc[d] = "closed" /\ pc' = [pc EXCEPT ![d] = "open_mgr"]
      /\ fd' = [fd EXCEPT ![d] = [dev \in Devices |-> 0]]
      /\ iNumOfInst' = [iNumOfInst EXCEPT ![d] = 0]
      /\ UNCHANGED <<table, instanceOf>>
  BY DEF PluginInit, Goto
<1>2. pc \in [Decoders -> Stages] /\ \A e \in Decoders : e # d => fd'[e] = fd[e]
  BY <1>1 DEF DriverInv, DriversTypeOK
<1>3. OwnInv'
  BY <1>1, <1>2 DEF DriverInv, OwnInv, Owned
<1>4. ~HoldsInstance(d) /\ ~HoldsInstance(d)'
  BY <1>1, <1>2 DEF HoldsInstance
<1>5. \A e \in Decoders : e # d =>
        (HoldsInstance(e)' <=> HoldsInstance(e)) /\ iNumOfInst'[e] = iNumOfInst[e]
  BY <1>1, <1>2 DEF HoldsInstance, DriverInv, DriversTypeOK
<1>6. InstanceInv'
  BY <1>1, <1>4, <1>5 DEF DriverInv, InstanceInv
<1>7. QED
  BY <1>3, <1>6

(* GET_INSTANCE_IDX reaches the manager and finds an instance nobody has.  *)
LEMMA GetInstanceOwn ==
  ASSUME Roomy, DriverInv, NEW d \in Decoders, GetInstance(d)
  PROVE  OwnInv' /\ InstanceInv'
<1> USE DEF MayHaveOpen, MustHaveOpen, Opening, Closing, HasInstance, Devices
<1>1. Reaches(d, "mgr")
  BY DriverConstants DEF GetInstance, DriverInv, OwnInv, Owned, Reaches, Closed
<1>2. ~HoldsInstance(d)
  BY DEF GetInstance, HoldsInstance
<1>3. FreeInstances # {}
  BY <1>2, InstanceFree
<1>4. PICK i \in InstanceIdx :
        /\ instanceOf[i] = NoOwner
        /\ instanceOf' = [instanceOf EXCEPT ![i] = d]
        /\ iNumOfInst' = [iNumOfInst EXCEPT ![d] = i]
  BY <1>1, <1>3 DEF GetInstance, GetInstanceIdx, FreeInstances
<1>5. Goto(d, "mode") /\ UNCHANGED <<fd, table>> /\ pc[d] = "instance"
  BY <1>1, <1>3 DEF GetInstance
<1>6. OwnInv'
  BY <1>5, GotoOwn
<1>7. /\ pc' = [pc EXCEPT ![d] = "mode"] /\ pc \in [Decoders -> Stages]
      /\ instanceOf \in [InstanceIdx -> Decoders \cup {NoOwner}]
      /\ iNumOfInst \in [Decoders -> InstanceIdx \cup {NoInstance, 0}]
  BY <1>5 DEF Goto, DriverInv, DriversTypeOK
<1>8. \A e \in Decoders : e # d =>
        (HoldsInstance(e)' <=> HoldsInstance(e)) /\ iNumOfInst'[e] = iNumOfInst[e]
  BY <1>4, <1>5, <1>7 DEF HoldsInstance
<1>9. HoldsInstance(d)' /\ iNumOfInst'[d] = i /\ instanceOf'[i] = d
  BY <1>4, <1>7 DEF HoldsInstance
<1>10. \A e \in Decoders : e # NoOwner
  BY DriverConstants DEF NoOwner
<1>11. ASSUME NEW e \in Decoders, HoldsInstance(e)'
       PROVE  iNumOfInst'[e] \in InstanceIdx /\ instanceOf'[iNumOfInst'[e]] = e
  <2>1. CASE e = d
    BY <1>9, <2>1
  <2>2. CASE e # d
    <3>1. /\ iNumOfInst[e] \in InstanceIdx /\ instanceOf[iNumOfInst[e]] = e
          /\ iNumOfInst'[e] = iNumOfInst[e]
      BY <1>8, <1>11, <2>2 DEF DriverInv, InstanceInv
    <3>2. iNumOfInst[e] # i
      BY <1>4, <1>10, <3>1
    <3>3. QED
      BY <1>4, <1>7, <3>1, <3>2
  <2>3. QED
    BY <2>1, <2>2
<1>12. ASSUME NEW j \in InstanceIdx, NEW e \in Decoders, instanceOf'[j] = e
       PROVE  HoldsInstance(e)' /\ iNumOfInst'[e] = j
  <2>1. CASE j = i
    BY <1>4, <1>7, <1>9, <1>12, <2>1
  <2>2. CASE j # i
    <3>1. instanceOf[j] = e
      BY <1>4, <1>7, <1>12, <2>2
    <3>2. HoldsInstance(e) /\ iNumOfInst[e] = j
      BY <3>1 DEF DriverInv, InstanceInv
    <3>3. QED
      BY <1>2, <1>8, <3>2
  <2>3. QED
    BY <2>1, <2>2
<1>13. InstanceInv'
  BY <1>11, <1>12 DEF InstanceInv
<1>14. QED
  BY <1>6, <1>13

(* The ioctls of Init reach the devices they are meant for; Deinit begins  *)
(* with everything open or, on a closed decoder, with nothing.             *)
LEMMA IoctlOwn ==
  ASSUME Roomy, DriverInv, NEW d \in Decoders,
         SetMemAllocMode(d) \/ DeviceInitialize(d) \/ PluginDeinit(d)
  PROVE  OwnInv' /\ InstanceInv'
<1> USE DEF MayHaveOpen, MustHaveOpen, Opening, Closing, HasInstance, Devices
<1>1. UNCHANGED <<fd, iNumOfInst, table, instanceOf>>
  BY DEF SetMemAllocMode, DeviceInitialize, PluginDeinit, Ioctl
<1>2. CASE SetMemAllocMode(d)
  <2>1. Reaches(d, "mgr")
    BY <1>2, DriverConstants DEF SetMemAllocMode, DriverInv, OwnInv, Owned, Reaches, Closed
  <2>2. Goto(d, "open_vpu")
    BY <1>2, <2>1 DEF SetMemAllocMode, Ioctl, Roomy
  <2>3. OwnInv'
    BY <1>1, <1>2, <2>2, GotoOwn DEF SetMemAllocMode
  <2>4. InstanceInv'
    BY <1>1, <1>2, <2>2, KeepInstance DEF SetMemAllocMode, HoldsInstance
  <2>5. QED
    BY <2>3, <2>4
<1>3. CASE DeviceInitialize(d)
  <2>1. Reaches(d, "vpu")
    BY <1>3, DriverConstants DEF DeviceInitialize, DriverInv, OwnInv, Owned, Reaches, Closed
  <2>2. Goto(d, "open_mem")
    BY <1>3, <2>1 DEF DeviceInitialize, Ioctl, Roomy
  <2>3. OwnInv'
    BY <1>1, <1>3, <2>2, GotoOwn DEF DeviceInitialize
  <2>4. InstanceInv'
    BY <1>1, <1>3, <2>2, KeepInstance DEF DeviceInitialize, HoldsInstance
  <2>5. QED
    BY <2>3, <2>4
<1>4. CASE PluginDeinit(d)
  <2>1. Goto(d, "clear") /\ pc[d] \in {"opened", "closed"}
    BY <1>4 DEF PluginDeinit
  <2>2. \A dev \in Devices : fd[d][dev] = Closed \/ Owned(d, dev)
    BY <2>1 DEF DriverInv, OwnInv
  <2>3. OwnInv'
    BY <1>1, <2>1, <2>2, GotoOwn
  <2>4. HoldsInstance(d) <=> fd[d]["mgr"] # Closed
    <3>1. CASE pc[d] = "opened"
      BY <3>1, DriverConstants DEF HoldsInstance, DriverInv, OwnInv, Owned, Closed
    <3>2. CASE pc[d] = "closed"
      <4>1. ~Owned(d, "mgr")
        BY <3>2 DEF DriverInv, Recorded, Owned
      <4>2. QED
        BY <2>2, <3>2, <4>1 DEF HoldsInstance
    <3>3. QED
      BY <2>1, <3>1, <3>2
  <2>5. InstanceInv'
    BY <1>1, <2>1, <2>4, KeepInstance
  <2>6. QED
    BY <2>3, <2>5
<1>5. QED
  BY <1>2, <1>3, <1>4

(* CLEAR_INSTANCE_IDX gives back the decoder's own instance and no other.  *)
LEMMA ClearInstanceOwn ==
  ASSUME DriverInv, NEW d \in Decoders, ClearInstance(d)
  PROVE  OwnInv' /\ InstanceInv'
<1> USE DEF MayHaveOpen, MustHaveOpen, Opening, Closing, HasInstance, Devices
<1>1. pc[d] = "clear" /\ Goto(d, "close_mgr") /\ UNCHANGED <<fd, table>>
  BY DEF ClearInstance
<1>2. OwnInv'
  <2>1. \A dev \in Devices : fd[d][dev] = Closed \/ Owned(d, dev)
    BY <1>1 DEF DriverInv, OwnInv
  <2>2. QED
    BY <1>1, <2>1, GotoOwn
<1>3. pc' = [pc EXCEPT ![d] = "close_mgr"] /\ pc \in [Decoders -> Stages]
  BY <1>1 DEF Goto, DriverInv, DriversTypeOK
<1>4. CASE fd[d]["mgr"] = Closed
  <2>1. UNCHANGED <<iNumOfInst, instanceOf>>
    BY <1>4 DEF ClearInstance
  <2>2. ~HoldsInstance(d)
    BY <1>1, <1>4 DEF HoldsInstance
  <2>3. InstanceInv'
    BY <1>1, <2>1, <2>2, KeepInstance
  <2>4. QED
    BY <1>2, <2>3
<1>5. CASE fd[d]["mgr"] # Closed
  <2> DEFINE i == iNumOfInst[d]
  <2>1. Reaches(d, "mgr")
    <3>1. Owned(d, "mgr")
      BY <1>1, <1>5 DEF DriverInv, OwnInv
    <3>2. QED
      BY <1>5, <3>1 DEF Owned, Reaches
  <2>2. i \in InstanceIdx /\ instanceOf[i] = d
    BY <1>1, <1>5 DEF DriverInv, InstanceInv, HoldsInstance
  <2>3. /\ iNumOfInst' = [iNumOfInst EXCEPT ![d] = NoInstance]
        /\ instanceOf' = [instanceOf EXCEPT ![i] = NoOwner]
    BY <1>5, <2>1, <2>2 DEF ClearInstance
  <2>4. /\ instanceOf \in [InstanceIdx -> Decoders \cup {NoOwner}]
        /\ iNumOfInst \in [Decoders -> InstanceIdx \cup {NoInstance, 0}]
    BY DEF DriverInv, DriversTypeOK
  <2>5. ~HoldsInstance(d)'
    BY <1>3 DEF HoldsInstance
  <2>6. \A e \in Decoders : e # d =>
          (HoldsInstance(e)' <=> HoldsInstance(e)) /\ iNumOfInst'[e] = iNumOfInst[e]
    BY <1>1, <1>3, <2>3, <2>4 DEF HoldsInstance
  <2>7. ASSUME NEW e \in Decoders, HoldsInstance(e)'
        PROVE  iNumOfInst'[e] \in InstanceIdx /\ instanceOf'[iNumOfInst'[e]] = e
    <3>1. e # d
      BY <2>5, <2>7
    <3>2. /\ iNumOfInst'[e] = iNumOfInst[e]
          /\ iNumOfInst[e] \in InstanceIdx /\ instanceOf[iNumOfInst[e]] = e
      BY <2>6, <2>7, <3>1 DEF DriverInv, InstanceInv
    <3>3. iNumOfInst[e] # i
      BY <2>2, <3>1, <3>2
    <3>4. QED
      BY <2>3, <2>4, <3>2, <3>3
  <2>8. ASSUME NEW j \in InstanceIdx, NEW e \in Decoders, instanceOf'[j] = e
        PROVE  HoldsInstance(e)' /\ iNumOfInst'[e] = j
    <3>1. e # NoOwner
      BY DriverConstants DEF NoOwner
    <3>2. j # i /\ instanceOf[j] = e
      BY <2>2, <2>3, <2>4, <2>8, <3>1
    <3>3. HoldsInstance(e) /\ iNumOfInst[e] = j
      BY <3>2 DEF DriverInv, InstanceInv
    <3>4. QED
      BY <2>6, <3>2, <3>3
  <2>9. QED
    BY <1>2, <2>7, <2>8 DEF InstanceInv
<1>6. QED
  BY <1>2, <1>4, <1>5

(* The closing steps come when the instance is given back.                 *)
LEMMA ClosingOwn ==
  ASSUME DriverInv, NEW d \in Decoders, CloseMgr(d) \/ CloseVpu(d) \/ CloseMem(d)
  PROVE  OwnInv' /\ InstanceInv'
<1> USE DEF MayHaveOpen, MustHaveOpen, Opening, Closing, HasInstance, Devices
<1>1. PICK dev \in Devices, next \in {"close_vpu", "close_mem", "closed"} :
        Close(d, dev) /\ Goto(d, next)
  BY DEF CloseMgr, CloseVpu, CloseMem
<1>2. pc[d] \in {"close_mgr", "close_vpu", "close_mem"} /\ UNCHANGED <<iNumOfInst, instanceOf>>
  BY DEF CloseMgr, CloseVpu, CloseMem
<1>3. OwnInv'
  BY <1>1, <1>2, CloseOwn
<1>4. \A e \in Decoders : e # d => fd'[e] = fd[e]
  BY <1>1 DEF Close, DriverInv, DriversTypeOK
<1>5. InstanceInv'
  BY <1>1, <1>2, <1>4, KeepInstance DEF HoldsInstance
<1>6. QED
  BY <1>3, <1>5

(* Everything is closed at the start. *)
LEMMA InitiallyOwn == Init => OwnInv /\ InstanceInv
<1> SUFFICES ASSUME Init PROVE OwnInv /\ InstanceInv
  OBVIOUS
<1>1. \A d \in Decoders : pc[d] = "closed" /\ d # NoOwner
  BY DriverConstants DEF Init, NoOwner
<1>2. OwnInv
  BY <1>1, DriverConstants DEF Init, OwnInv, MustHaveOpen, MayHaveOpen, Closing, App, Free
<1>3. InstanceInv
  BY <1>1 DEF Init, InstanceInv, HoldsInstance, HasInstance
<1>4. QED
  BY <1>2, <1>3

(* With room for all decoders what each works on is its own, in every      *)
(* state and stage of Init and Deinit.                                     *)
THEOREM OwnershipHolds ==
  ASSUME Roomy
  PROVE  Spec => [](OwnInv /\ InstanceInv)
<1>1. DriversTypeOK /\ Recorded /\ OwnInv /\ InstanceInv /\ [Next]_vars
        => OwnInv' /\ InstanceInv'
  <2>1. SUFFICES ASSUME DriverInv, [Next]_vars PROVE OwnInv' /\ InstanceInv'
    BY DEF DriverInv
  <2>2. CASE UNCHANGED vars
    BY <2>1, <2>2 DEF vars, DriverInv, OwnInv, InstanceInv, Owned, HoldsInstance
  <2>3. CASE Next
    <3>1. PICK d \in Decoders :
            \/ PluginInit(d) \/ OpenMgr(d) \/ GetInstance(d) \/ SetMemAllocMode(d)
            \/ OpenVpu(d) \/ DeviceInitialize(d) \/ OpenMem(d)
            \/ PluginDeinit(d) \/ ClearInstance(d) \/ CloseMgr(d) \/ CloseVpu(d) \/ CloseMem(d)
      BY <2>3 DEF Next
    <3>2. QED
      BY <2>1, <3>1, OpeningOwn, InitOwn, GetInstanceOwn, IoctlOwn, ClearInstanceOwn,
         ClosingOwn
  <2>4. QED
    BY <2>1, <2>2, <2>3
<1>2. QED
  BY DriversTypeCorrect, RecordedHolds, InitiallyOwn, <1>1, PTL DEF Spec

(* DescriptorsOwned: an open decoder works on the devices it opened, and   *)
(* the application's descriptor is left alone.                             *)
THEOREM OwnDescriptors ==
  ASSUME Roomy
  PROVE  Spec => []DescriptorsOwned
<1>1. OwnInv => DescriptorsOwned
  BY DriverConstants
     DEF OwnInv, DescriptorsOwned, Owned, MustHaveOpen, MayHaveOpen, Closing
<1>2. QED
  BY OwnershipHolds, <1>1, PTL

(* InstanceExclusive: no two decoders run on one driver instance.          *)
THEOREM ExclusiveInstances ==
  ASSUME Roomy
  PROVE  Spec => []InstanceExclusive
<1>1. InstanceInv => InstanceExclusive
  BY DEF InstanceInv, InstanceExclusive, HoldsInstance
<1>2. QED
  BY OwnershipHolds, <1>1, PTL

(* NoInstanceLeft: a closed decoder has given its instance back.           *)
THEOREM InstancesReturned ==
  ASSUME Roomy
  PROVE  Spec => []NoInstanceLeft
<1>1. InstanceInv => NoInstanceLeft
  BY DEF InstanceInv, NoInstanceLeft, HoldsInstance, HasInstance
<1>2. QED
  BY OwnershipHolds, <1>1, PTL

==============================================================================
