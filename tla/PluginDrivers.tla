---------------------------- MODULE PluginDrivers -----------------------------
(***************************************************************************)
(* The devices of several legacy decoders in one process, each opened and  *)
(* closed by its own thread: video_plugin_open_drivers and                 *)
(* video_plugin_close_drivers (decoder_plugin_video_common.c) with the     *)
(* vpu_open_* and vpu_close_* they call (decoder_plugin_video_ips.c),      *)
(* called from a plugin's Init and Deinit.                                 *)
(*                                                                         *)
(* What the decoders share is external: the descriptor table of the        *)
(* process, where open takes the lowest free entry and close frees an      *)
(* entry whoever it belongs to by now, and the manager's table of decoder  *)
(* instances.  A system call is one step.                                  *)
(***************************************************************************)
EXTENDS Integers, FiniteSets

CONSTANTS
  Decoders,
  Instances,    \* the decoder instances of the driver
  Descriptors,  \* the entries of the descriptor table; 0 is in use at first
  Faults        \* the calls that may fail although nothing is exhausted

Devices == {"mgr", "vpu", "mem"}

ASSUME DriverConstants ==
  /\ Instances \in Nat
  /\ Descriptors \subseteq Nat /\ IsFiniteSet(Descriptors) /\ 0 \in Descriptors
  /\ "none" \notin Decoders /\ "app" \notin Decoders
  /\ Faults \subseteq Devices \cup {"mode", "device"}

InstanceIdx == 0..(Instances - 1)
Closed == -1
NoInstance == -1
NoOwner == "none"
Free == <<"none", "none">>
App  == <<"app", "stdin">>

VARIABLES
  \* of each decoder
  pc,          \* the system call it is at
  fd,          \* tDriverFD
  iNumOfInst,  \* iNumOfInst and iInstIdx, which follow each other
  bInited,
  \* of the process and the driver (external)
  table,       \* who opened what under each descriptor
  instanceOf   \* the decoder each instance was given to

vars == <<pc, fd, iNumOfInst, bInited, table, instanceOf>>

Init ==
  /\ pc = [d \in Decoders |-> "closed"]
  /\ fd = [d \in Decoders |-> [dev \in Devices |-> Closed]]
  /\ iNumOfInst = [d \in Decoders |-> NoInstance]
  /\ bInited = [d \in Decoders |-> FALSE]
  /\ table = [f \in Descriptors |-> IF f = 0 THEN App ELSE Free]
  /\ instanceOf = [i \in InstanceIdx |-> NoOwner]

Goto(d, next) == pc' = [pc EXCEPT ![d] = next]

------------------------------------------------------------------------------
(* The system calls.                                                       *)

FreeDescriptors == { f \in Descriptors : table[f] = Free }

Open(d, dev, next) ==
  \E f \in FreeDescriptors :
    /\ \A g \in FreeDescriptors : f <= g
    /\ table' = [table EXCEPT ![f] = <<d, dev>>]
    /\ fd' = [fd EXCEPT ![d][dev] = f]
    /\ Goto(d, next)

(* Every failure of video_plugin_open_drivers leads to close_drivers.      *)
OpenFails(d, dev) ==
  /\ dev \in Faults \/ FreeDescriptors = {}
  /\ fd' = [fd EXCEPT ![d][dev] = Closed]
  /\ Goto(d, "clear")
  /\ UNCHANGED table

(* An ioctl gets through when the descriptor is open on such a device,     *)
(* whoever opened it.                                                      *)
Reaches(d, dev) == fd[d][dev] # Closed /\ table[fd[d][dev]][2] = dev

(* Mutant: the descriptor keeps its number when it is closed. *)
Close_KeepsNumber(d, dev) ==
  IF fd[d][dev] = Closed THEN UNCHANGED <<table, fd>>
  ELSE /\ table' = [table EXCEPT ![fd[d][dev]] = Free]
       /\ UNCHANGED fd

Close(d, dev) ==
  IF fd[d][dev] = Closed THEN UNCHANGED <<table, fd>>
  ELSE /\ table' = [table EXCEPT ![fd[d][dev]] = Free]
       /\ fd' = [fd EXCEPT ![d][dev] = Closed]

------------------------------------------------------------------------------
(* A plugin's Init.                                                        *)

(* VideoDecoder_Init makes a new plugin, whose handle is zeroed: all three *)
(* descriptors are 0 until they are opened.                                *)
PluginInit(d) ==
  /\ pc[d] = "closed"
  /\ fd' = [fd EXCEPT ![d] = [dev \in Devices |-> 0]]
  /\ iNumOfInst' = [iNumOfInst EXCEPT ![d] = 0]
  /\ bInited' = [bInited EXCEPT ![d] = FALSE]
  /\ Goto(d, "open_mgr")
  /\ UNCHANGED <<table, instanceOf>>

OpenMgr(d) ==
  /\ pc[d] = "open_mgr"
  /\ Open(d, "mgr", "instance") \/ OpenFails(d, "mgr")
  /\ UNCHANGED <<iNumOfInst, bInited, instanceOf>>

(* Mutants: the instance given is not recorded; its number is taken one    *)
(* too high.                                                               *)
GetInstanceIdx_NotRecorded(d, i) ==
  /\ instanceOf' = [instanceOf EXCEPT ![i] = d]
  /\ UNCHANGED iNumOfInst
GetInstanceIdx_OffByOne(d, i) ==
  /\ instanceOf' = [instanceOf EXCEPT ![i] = d]
  /\ iNumOfInst' = [iNumOfInst EXCEPT ![d] = i + 1]

GetInstanceIdx(d, i) ==
  /\ instanceOf' = [instanceOf EXCEPT ![i] = d]
  /\ iNumOfInst' = [iNumOfInst EXCEPT ![d] = i]

FreeInstances == { i \in InstanceIdx : instanceOf[i] = NoOwner }

(* When none is left iNumOfInst keeps its 0.                               *)
GetInstance(d) ==
  /\ pc[d] = "instance"
  /\ \/ /\ Reaches(d, "mgr")
        /\ \E i \in FreeInstances : GetInstanceIdx(d, i)
        /\ Goto(d, "mode")
     \/ /\ ~Reaches(d, "mgr") \/ FreeInstances = {}
        /\ Goto(d, "clear")
        /\ UNCHANGED <<instanceOf, iNumOfInst>>
  /\ UNCHANGED <<fd, bInited, table>>

Ioctl(d, dev, call, next) ==
  /\ \/ Reaches(d, dev) /\ Goto(d, next)
     \/ (~Reaches(d, dev) \/ call \in Faults) /\ Goto(d, "clear")
  /\ UNCHANGED <<fd, iNumOfInst, bInited, table, instanceOf>>

SetMemAllocMode(d) == pc[d] = "mode" /\ Ioctl(d, "mgr", "mode", "open_vpu")

OpenVpu(d) ==
  /\ pc[d] = "open_vpu"
  /\ Open(d, "vpu", "device") \/ OpenFails(d, "vpu")
  /\ UNCHANGED <<iNumOfInst, bInited, instanceOf>>

DeviceInitialize(d) == pc[d] = "device" /\ Ioctl(d, "vpu", "device", "open_mem")

(* Mutant: when the last open fails the manager is left as it is. *)
OpenMem_KeepsMgr(d) ==
  /\ pc[d] = "open_mem"
  /\ \/ Open(d, "mem", "opened") /\ bInited' = [bInited EXCEPT ![d] = TRUE]
     \/ /\ "mem" \in Faults
        /\ fd' = [fd EXCEPT ![d]["mem"] = Closed]
        /\ Goto(d, "close_vpu")
        /\ UNCHANGED <<table, bInited>>
  /\ UNCHANGED <<iNumOfInst, instanceOf>>

OpenMem(d) ==
  /\ pc[d] = "open_mem"
  /\ \/ Open(d, "mem", "opened") /\ bInited' = [bInited EXCEPT ![d] = TRUE]
     \/ OpenFails(d, "mem") /\ UNCHANGED bInited
  /\ UNCHANGED <<iNumOfInst, instanceOf>>

------------------------------------------------------------------------------
(* A plugin's Deinit, and the closing after a failed Init.                 *)

(* bInited is never cleared: Deinit closes the drivers as often as it is   *)
(* called.                                                                 *)
PluginDeinit(d) ==
  /\ pc[d] = "opened" \/ (pc[d] = "closed" /\ bInited[d])
  /\ Goto(d, "clear")
  /\ UNCHANGED <<fd, iNumOfInst, bInited, table, instanceOf>>

ClearInstance(d) ==
  /\ pc[d] = "clear"
  /\ IF fd[d]["mgr"] = Closed THEN UNCHANGED <<iNumOfInst, instanceOf>>
     ELSE /\ iNumOfInst' = [iNumOfInst EXCEPT ![d] = NoInstance]
          /\ instanceOf' = IF Reaches(d, "mgr") /\ iNumOfInst[d] \in InstanceIdx
                           THEN [instanceOf EXCEPT ![iNumOfInst[d]] = NoOwner]
                           ELSE instanceOf
  /\ Goto(d, "close_mgr")
  /\ UNCHANGED <<fd, bInited, table>>

CloseMgr(d) ==
  /\ pc[d] = "close_mgr" /\ Close(d, "mgr")
  /\ Goto(d, "close_vpu")
  /\ UNCHANGED <<iNumOfInst, bInited, instanceOf>>

(* Mutant: the decoder device is closed only if Init came to its end. *)
CloseVpu_OnlyInited(d) ==
  /\ pc[d] = "close_vpu"
  /\ IF bInited[d] THEN Close(d, "vpu") ELSE UNCHANGED <<table, fd>>
  /\ Goto(d, "close_mem")
  /\ UNCHANGED <<iNumOfInst, bInited, instanceOf>>

CloseVpu(d) ==
  /\ pc[d] = "close_vpu" /\ Close(d, "vpu")
  /\ Goto(d, "close_mem")
  /\ UNCHANGED <<iNumOfInst, bInited, instanceOf>>

CloseMem(d) ==
  /\ pc[d] = "close_mem" /\ Close(d, "mem")
  /\ Goto(d, "closed")
  /\ UNCHANGED <<iNumOfInst, bInited, instanceOf>>

Next ==
  \E d \in Decoders :
    \/ PluginInit(d) \/ OpenMgr(d) \/ GetInstance(d) \/ SetMemAllocMode(d)
    \/ OpenVpu(d) \/ DeviceInitialize(d) \/ OpenMem(d)
    \/ PluginDeinit(d) \/ ClearInstance(d) \/ CloseMgr(d) \/ CloseVpu(d) \/ CloseMem(d)

Spec == Init /\ [][Next]_vars

------------------------------------------------------------------------------
(* Properties.                                                             *)

Opening == {"open_mgr", "instance", "mode", "open_vpu", "device", "open_mem"}
Closing == {"clear", "close_mgr", "close_vpu", "close_mem"}
Stages == Opening \cup Closing \cup {"opened", "closed"}
HasInstance(p) == p \in {"mode", "open_vpu", "device", "open_mem", "opened"}

(* Every variable holds a value of its type; the instance a decoder        *)
(* records has a device name in pstrGVpuDevs.                              *)
DriversTypeOK ==
  /\ pc \in [Decoders -> Stages]
  /\ fd \in [Decoders -> [Devices -> Descriptors \cup {Closed}]]
  /\ iNumOfInst \in [Decoders -> InstanceIdx \cup {NoInstance, 0}]
  /\ \A d \in Decoders : HasInstance(pc[d]) => iNumOfInst[d] \in InstanceIdx
  /\ bInited \in [Decoders -> BOOLEAN]
  /\ table \in [Descriptors -> (Decoders \X Devices) \cup {Free, App}]
  /\ instanceOf \in [InstanceIdx -> Decoders \cup {NoOwner}]

(* close_drivers undoes whatever part of open_drivers was done: a decoder  *)
(* that is closed, after a Deinit or after a failure of any of the calls   *)
(* of Init, has no descriptor open, also when others reuse the numbers it  *)
(* closes.                                                                 *)
NoDescriptorLeft ==
  \A d \in Decoders : pc[d] = "closed" =>
    \A f \in Descriptors : table[f][1] # d

(* A decoder that is closed has given its driver instance back.            *)
NoInstanceLeft ==
  \A d \in Decoders : pc[d] = "closed" =>
    \A i \in InstanceIdx : instanceOf[i] # d

(* What a decoder that is open works on is its own: the descriptors it     *)
(* uses are still those of the devices it opened, whatever the other       *)
(* threads open and close, and the application's are left alone.           *)
DescriptorsOwned ==
  /\ table[0] = App
  /\ \A d \in Decoders : pc[d] = "opened" =>
       \A dev \in Devices : table[fd[d][dev]] = <<d, dev>>

(* No two decoders run on one driver instance: the one a decoder was given *)
(* stays its own until it clears it.                                       *)
InstanceExclusive ==
  \A d \in Decoders :
    HasInstance(pc[d]) => instanceOf[iNumOfInst[d]] = d

==============================================================================
