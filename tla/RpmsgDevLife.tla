---------------------------- MODULE RpmsgDevLife ----------------------------
(***************************************************************************)
(* The life of the rpmsg character devices: loading and unloading of the   *)
(* driver module, probe and remove for each rpmsg channel, and the files   *)
(* that user space holds open meanwhile.                                   *)
(*                                                                         *)
(* proxy tells which driver is meant: FALSE is rpmsg_user_dev_driver.c,    *)
(* whose messages come through the channel's own endpoint, which the bus   *)
(* creates before probe and destroys after remove; TRUE is                 *)
(* rpmsg_proxy_dev_driver.c,                                               *)
(* which creates an endpoint of its own in probe.  They also differ in the *)
(* order of "send init_msg" and "set drvdata".                             *)
(*                                                                         *)
(* Of the rpmsg bus and the driver core the model takes: one probe or      *)
(* remove at a time; a remote sends to an endpoint once it has had the     *)
(* init_msg; memory of devm_kzalloc is released after a failed probe or    *)
(* after remove.  An open file holds a reference to the module (cdev.owner *)
(* and fops.owner), so that it cannot be unloaded, but none to the channel *)
(* or to the structure: a minor, which is used once for the life of the    *)
(* module, names the structure a file was opened on.  A class has a name   *)
(* of its own in the system, a range of device numbers need not.           *)
(***************************************************************************)
EXTENDS Naturals

CONSTANTS
  Chans,       \* the channels of the demo service that may appear
  Files,       \* the file descriptors of user space
  None,        \* no channel, no file
  MaxMinors,   \* RPMSG_USER_DEV_MAX_MINORS, 10
  MaxRefused   \* bound: how often the driver cannot be registered

ASSUME LifeAssumption ==
  /\ None \notin Chans /\ None \notin Nat
  /\ MaxMinors \in Nat /\ MaxRefused \in Nat

VARIABLES
  proxy,       \* which of the two drivers; it never changes
  mod,         \* where init/fini of the module is
  rpmsg_class, \* does it point to a class? If not, it holds an error
  class,       \* is a class of the driver's name registered in the system?
  regions,     \* ranges of device numbers allocated in the system
  next_minor,  \* rpmsg_dev_next_minor
  pc,          \* where each channel is in probe or remove
  local,       \* its device structure: none, live or freed
  kfifo,       \* its kfifo's memory
  drvdata,     \* does the channel's drvdata point to the structure?
  ept,         \* may messages of the channel reach the device callback?
  invited,     \* has the remote been sent the init_msg?
  minor,       \* the rpmsg_minor of the structure
  cdevs,       \* character devices: whose structure each minor leads to
  nodes,       \* minors that have a device file
  file,        \* the minor each descriptor is open on
  lost,        \* history: minors whose channel went away by itself
  refused      \* history: loads whose driver could not be registered

modVars  == <<mod, rpmsg_class, class, regions, next_minor, refused>>
memVars  == <<local, kfifo, drvdata>>
msgVars  == <<ept, invited>>
fileVars == <<minor, cdevs, nodes>>
userVars == <<file, lost>>
vars     == <<proxy, modVars, pc, memVars, msgVars, fileVars, userVars>>

Minors == 0 .. MaxMinors - 1

Init ==
  /\ proxy \in BOOLEAN
  /\ mod = "out" /\ rpmsg_class = FALSE /\ class = FALSE /\ regions = 0
  /\ next_minor = 0 /\ refused = 0
  /\ pc = [c \in Chans |-> "none"]
  /\ local = [c \in Chans |-> "none"]
  /\ kfifo = [c \in Chans |-> "none"]
  /\ drvdata = [c \in Chans |-> FALSE]
  /\ ept = [c \in Chans |-> FALSE]
  /\ invited = [c \in Chans |-> FALSE]
  /\ minor = [c \in Chans |-> 0]
  /\ cdevs = [k \in Minors |-> None]
  /\ nodes = {}
  /\ file = [f \in Files |-> None] /\ lost = {}

Goto(c, l) == pc' = [pc EXCEPT ![c] = l]
Settled == \A c \in Chans : pc[c] \in {"none", "bound"}

-----------------------------------------------------------------------------
(***************************************************************************)
(* init and fini of the module.                                            *)
(***************************************************************************)
\* class_create: a failure, which a class of that name left by an earlier load
\* makes certain, is an error pointer, and the test for NULL does not see it.
InitClass ==
  /\ mod = "out"
  /\ \/ ~ class /\ class' = TRUE /\ rpmsg_class' = TRUE
     \/ rpmsg_class' = FALSE /\ UNCHANGED class
  /\ mod' = "region" /\ next_minor' = 0 /\ lost' = {}
  /\ UNCHANGED <<proxy, regions, refused, pc, memVars, msgVars, fileVars, file>>

\* class_destroy of what rpmsg_class holds; it ignores an error.
DestroyClass == class' = (class /\ ~ rpmsg_class) /\ rpmsg_class' = FALSE

\* alloc_chrdev_region works, or the class is destroyed again.
InitRegion ==
  /\ mod = "region"
  /\ \/ regions' = regions + 1 /\ mod' = "register" /\ UNCHANGED <<class, rpmsg_class>>
     \/ DestroyClass /\ mod' = "out" /\ UNCHANGED regions
  /\ UNCHANGED <<proxy, next_minor, refused, pc, memVars, msgVars, fileVars, userVars>>

\* The result of register_rpmsg_driver is returned as it is: when it fails
\* the class and the region stay behind and the module is not loaded.
InitRegister ==
  /\ mod = "register"
  /\ \/ mod' = "in" /\ UNCHANGED <<rpmsg_class, refused>>
     \/ /\ refused < MaxRefused /\ refused' = refused + 1
        /\ mod' = "out" /\ rpmsg_class' = FALSE
  /\ UNCHANGED <<proxy, class, regions, next_minor, pc, memVars, msgVars, fileVars, userVars>>

\* Mutant: open files hold no reference to the module (no owner is set).
FiniStartMut_NoOwner ==
  /\ mod = "in" /\ Settled
  /\ mod' = "exit"
  /\ UNCHANGED <<proxy, rpmsg_class, class, regions, next_minor, refused, pc, memVars, msgVars,
                 fileVars, userVars>>

\* unregister_rpmsg_driver has the bus remove every bound channel.
FiniStart ==
  /\ mod = "in" /\ Settled /\ \A f \in Files : file[f] = None
  /\ mod' = "exit"
  /\ UNCHANGED <<proxy, rpmsg_class, class, regions, next_minor, refused, pc, memVars, msgVars,
                 fileVars, userVars>>

\* Mutant: the class is not destroyed.
FiniEndMut_KeepClass ==
  /\ mod = "exit" /\ \A c \in Chans : pc[c] = "none"
  /\ regions' = regions - 1 /\ rpmsg_class' = FALSE
  /\ mod' = "out"
  /\ UNCHANGED <<proxy, class, next_minor, refused, pc, memVars, msgVars, fileVars, userVars>>

FiniEnd ==
  /\ mod = "exit" /\ \A c \in Chans : pc[c] = "none"
  /\ regions' = regions - 1 /\ DestroyClass
  /\ mod' = "out"
  /\ UNCHANGED <<proxy, next_minor, refused, pc, memVars, msgVars, fileVars, userVars>>

-----------------------------------------------------------------------------
(***************************************************************************)
(* probe.                                                                  *)
(***************************************************************************)

\* The bus offers a channel to the driver, endpoint and all.
ProbeStart(c) ==
  /\ mod = "in" /\ Settled /\ pc[c] = "none"
  /\ Goto(c, "alloc")
  /\ drvdata' = [drvdata EXCEPT ![c] = FALSE]
  /\ ept' = [ept EXCEPT ![c] = ~ proxy]
  /\ invited' = [invited EXCEPT ![c] = FALSE]
  /\ UNCHANGED <<proxy, modVars, local, kfifo, fileVars, userVars>>

\* devm_kzalloc; -ENOMEM leaves nothing behind.
ProbeAlloc(c) ==
  /\ pc[c] = "alloc"
  /\ \/ local' = [local EXCEPT ![c] = "live"] /\ Goto(c, "kfifo")
     \/ Goto(c, "failed") /\ UNCHANGED local
  /\ UNCHANGED <<proxy, modVars, kfifo, drvdata, msgVars, fileVars, userVars>>

\* kfifo_alloc; a failure goes to error0.  The user driver sets drvdata
\* before it sends anything, the proxy driver creates its endpoint.
ProbeKfifo(c) ==
  /\ pc[c] = "kfifo"
  /\ \/ kfifo' = [kfifo EXCEPT ![c] = "live"] /\ Goto(c, IF proxy THEN "ept" ELSE "data")
     \/ Goto(c, "failed") /\ UNCHANGED kfifo
  /\ UNCHANGED <<proxy, modVars, local, drvdata, msgVars, fileVars, userVars>>

\* rpmsg_create_ept (proxy); a failure goes to error1.
ProbeEpt(c) ==
  /\ pc[c] = "ept"
  /\ \/ ept' = [ept EXCEPT ![c] = TRUE] /\ Goto(c, "send")
     \/ Goto(c, "error1") /\ UNCHANGED ept
  /\ UNCHANGED <<proxy, modVars, memVars, invited, fileVars, userVars>>

\* Mutant: drvdata is not set before the init_msg is sent.
ProbeDataMut_None(c) ==
  /\ pc[c] = "data"
  /\ UNCHANGED <<proxy, drvdata>>
  /\ Goto(c, "send")
  /\ UNCHANGED <<proxy, modVars, local, kfifo, msgVars, fileVars, userVars>>

\* dev_set_drvdata.
ProbeData(c) ==
  /\ pc[c] = "data"
  /\ drvdata' = [drvdata EXCEPT ![c] = TRUE]
  /\ Goto(c, IF proxy THEN "minor" ELSE "send")
  /\ UNCHANGED <<proxy, modVars, local, kfifo, msgVars, fileVars, userVars>>

\* The init_msg tells the remote the address; from now on it may answer.
ProbeSend(c) ==
  /\ pc[c] = "send"
  /\ \/ invited' = [invited EXCEPT ![c] = TRUE] /\ Goto(c, IF proxy THEN "data" ELSE "minor")
     \/ Goto(c, IF proxy THEN "error2" ELSE "error1") /\ UNCHANGED invited
  /\ UNCHANGED <<proxy, modVars, memVars, ept, fileVars, userVars>>

OnError(c) == Goto(c, IF proxy THEN "error2" ELSE "error1")

\* A minor is used once for the life of the module.
ProbeMinor(c) ==
  /\ pc[c] = "minor"
  /\ \/ /\ next_minor < MaxMinors
        /\ minor' = [minor EXCEPT ![c] = next_minor]
        /\ next_minor' = next_minor + 1
        /\ Goto(c, "cdev")
     \/ /\ ~ (next_minor < MaxMinors)
        /\ OnError(c)
        /\ UNCHANGED <<minor, next_minor>>
  /\ UNCHANGED <<proxy, mod, rpmsg_class, class, regions, refused, memVars, msgVars, cdevs, nodes,
                 userVars>>

\* cdev_add.
ProbeCdev(c) ==
  /\ pc[c] = "cdev"
  /\ \/ cdevs' = [cdevs EXCEPT ![minor[c]] = c] /\ Goto(c, "node")
     \/ OnError(c) /\ UNCHANGED cdevs
  /\ UNCHANGED <<proxy, modVars, memVars, msgVars, minor, nodes, userVars>>

\* Mutant: a failure of device_create is seen, and takes the error path.
ProbeNodeMut_IsErr(c) ==
  /\ pc[c] = "node"
  /\ \/ rpmsg_class /\ nodes' = nodes \cup {minor[c]} /\ Goto(c, "bound")
     \/ OnError(c) /\ UNCHANGED nodes
  /\ UNCHANGED <<proxy, modVars, memVars, msgVars, minor, cdevs, userVars>>

\* device_create reports a failure by an error pointer and never by NULL,
\* the value the code tests for: the channel is bound without a file.  It
\* fails if there is no class.
ProbeNode(c) ==
  /\ pc[c] = "node"
  /\ \/ rpmsg_class /\ nodes' = nodes \cup {minor[c]}
     \/ UNCHANGED nodes
  /\ Goto(c, "bound")
  /\ UNCHANGED <<proxy, modVars, memVars, msgVars, minor, cdevs, userVars>>

\* error2: rpmsg_destroy_ept (proxy).
ProbeError2(c) ==
  /\ pc[c] = "error2"
  /\ ept' = [ept EXCEPT ![c] = FALSE]
  /\ Goto(c, "error1")
  /\ UNCHANGED <<proxy, modVars, memVars, invited, fileVars, userVars>>

\* error1: kfifo_free.
ProbeError1(c) ==
  /\ pc[c] = "error1"
  /\ kfifo' = [kfifo EXCEPT ![c] = "freed"]
  /\ Goto(c, "failed")
  /\ UNCHANGED <<proxy, modVars, local, drvdata, msgVars, fileVars, userVars>>

\* Back in the bus: the channel's endpoint goes, then the managed memory.
\* drvdata is left as it is.
Unbind(c) ==
  /\ pc[c] \in {"failed", "removed"}
  /\ ept' = IF proxy THEN ept ELSE [ept EXCEPT ![c] = FALSE]
  /\ local' = [local EXCEPT ![c] = IF @ = "live" THEN "freed" ELSE @]
  /\ Goto(c, "none")
  /\ UNCHANGED <<proxy, modVars, kfifo, drvdata, invited, fileVars, userVars>>

-----------------------------------------------------------------------------
(***************************************************************************)
(* remove: on unloading, or because the channel goes away.                 *)
(***************************************************************************)
RemoveStart(c) ==
  /\ pc[c] = "bound" /\ Settled /\ mod \in {"in", "exit"}
  /\ Goto(c, "destroy")
  /\ lost' = IF mod = "in" THEN lost \cup {minor[c]} ELSE lost
  /\ UNCHANGED <<proxy, modVars, memVars, msgVars, fileVars, file>>

\* device_destroy searches the class; where rpmsg_class holds an error it
\* follows it, and the kernel kills the task that was in remove.
RemoveNode(c) ==
  /\ pc[c] = "destroy"
  /\ \/ rpmsg_class /\ nodes' = nodes \ {minor[c]} /\ Goto(c, "cdevdel")
     \/ ~ rpmsg_class /\ Goto(c, "oops") /\ UNCHANGED nodes
  /\ UNCHANGED <<proxy, modVars, memVars, msgVars, minor, cdevs, userVars>>

RemoveCdev(c) ==
  /\ pc[c] = "cdevdel"
  /\ cdevs' = [cdevs EXCEPT ![minor[c]] = None]
  /\ Goto(c, "free")
  /\ UNCHANGED <<proxy, modVars, memVars, msgVars, minor, nodes, userVars>>

\* The proxy driver destroys its endpoint before it frees the kfifo.
RemoveFree(c) ==
  /\ pc[c] = "free"
  /\ ept' = IF proxy THEN [ept EXCEPT ![c] = FALSE] ELSE ept
  /\ kfifo' = [kfifo EXCEPT ![c] = "freed"]
  /\ Goto(c, "removed")
  /\ UNCHANGED <<proxy, modVars, local, drvdata, invited, fileVars, userVars>>

-----------------------------------------------------------------------------
(***************************************************************************)
(* rpmsg_dev_open keeps the structure its cdev is part of; it needs no     *)
(* file in the file system that is still there, only the cdev.             *)
(***************************************************************************)
rpmsg_dev_open(f, k) ==
  /\ mod = "in" /\ file[f] = None /\ cdevs[k] # None
  /\ file' = [file EXCEPT ![f] = k]
  /\ UNCHANGED <<proxy, modVars, pc, memVars, msgVars, fileVars, lost>>

rpmsg_dev_release(f) ==
  /\ file[f] # None
  /\ file' = [file EXCEPT ![f] = None]
  /\ UNCHANGED <<proxy, modVars, pc, memVars, msgVars, fileVars, lost>>

-----------------------------------------------------------------------------
ModNext == InitClass \/ InitRegion \/ InitRegister \/ FiniStart \/ FiniEnd

ChanStep(c) ==
  \/ ProbeAlloc(c) \/ ProbeKfifo(c) \/ ProbeEpt(c) \/ ProbeData(c)
  \/ ProbeSend(c) \/ ProbeMinor(c) \/ ProbeCdev(c) \/ ProbeNode(c)
  \/ ProbeError2(c) \/ ProbeError1(c) \/ Unbind(c)
  \/ RemoveNode(c) \/ RemoveCdev(c) \/ RemoveFree(c)

ChanNext(c) == ProbeStart(c) \/ RemoveStart(c) \/ ChanStep(c)

UserNext == \E f \in Files : rpmsg_dev_release(f) \/ \E k \in Minors : rpmsg_dev_open(f, k)

Next == ModNext \/ (\E c \in Chans : ChanNext(c)) \/ UserNext

\* probe and remove run to their end, and so does the unregistering of the
\* driver, which removes the bound channels itself.  Nobody has to load the
\* module or to announce a channel.
Fairness ==
  /\ \A c \in Chans : WF_vars(ChanStep(c)) /\ WF_vars(mod = "exit" /\ RemoveStart(c))
  /\ WF_vars(FiniEnd)

Spec == Init /\ [][Next]_vars
FairSpec == Spec /\ Fairness

-----------------------------------------------------------------------------
ChanPc == {"none", "alloc", "kfifo", "ept", "data", "send", "minor", "cdev",
           "node", "bound", "error1", "error2", "failed", "destroy",
           "cdevdel", "free", "removed", "oops"}

(***************************************************************************)
(* Type invariant of the module's and the channels' state.                 *)
(***************************************************************************)
TypeOK ==
  /\ proxy \in BOOLEAN
  /\ mod \in {"out", "region", "register", "in", "exit"}
  /\ rpmsg_class \in BOOLEAN /\ class \in BOOLEAN
  /\ regions \in Nat /\ refused \in Nat
  /\ next_minor \in 0 .. MaxMinors
  /\ pc \in [Chans -> ChanPc]
  /\ local \in [Chans -> {"none", "live", "freed"}]
  /\ kfifo \in [Chans -> {"none", "live", "freed"}]
  /\ drvdata \in [Chans -> BOOLEAN]
  /\ ept \in [Chans -> BOOLEAN] /\ invited \in [Chans -> BOOLEAN]
  /\ minor \in [Chans -> Nat]
  /\ cdevs \in [Minors -> Chans \cup {None}]
  /\ nodes \subseteq Minors
  /\ file \in [Files -> Minors \cup {None}] /\ lost \subseteq Minors

(***************************************************************************)
(* Whenever a message of the remote can reach the device callback, the     *)
(* drvdata it dereferences points to a live structure, with one exception: *)
(* the proxy's probe between sending the init_msg and setting drvdata.     *)
(* The kfifo it fills is live too, except that the user driver's is freed  *)
(* (and takes nothing) when probe has failed or remove is over and the bus *)
(* has not yet destroyed the endpoint.                                     *)
(***************************************************************************)
CbFindsDevice ==
  \A c \in Chans : ept[c] /\ invited[c] =>
    \/ proxy /\ pc[c] = "data"
    \/ /\ drvdata[c] /\ local[c] = "live"
       /\ kfifo[c] = "live" \/ (~ proxy /\ pc[c] \in {"failed", "removed"})

(***************************************************************************)
(* A device file leads to the live structure, with a live kfifo, of the    *)
(* channel that owns its minor; so does a file that was opened on it, and  *)
(* unloading waits for that file to be closed, unless the channel itself   *)
(* went away meanwhile: remove does not wait for open files.               *)
(***************************************************************************)
FileReachesDevice ==
  /\ \A k \in nodes : \E c \in Chans :
       /\ cdevs[k] = c /\ minor[c] = k
       /\ pc[c] \in {"bound", "destroy"}
       /\ local[c] = "live" /\ kfifo[c] = "live"
  /\ \A f \in Files : file[f] # None =>
       /\ mod = "in"
       /\ \/ file[f] \in lost
          \/ \E c \in Chans :
               cdevs[file[f]] = c /\ minor[c] = file[f] /\ local[c] = "live" /\ kfifo[c] = "live"

(***************************************************************************)
(* A channel that is not bound, its probe having failed anywhere or its    *)
(* remove being over, leaves nothing registered and no kfifo allocated.    *)
(* Loads of the module, one after the other and failing anywhere, leave a  *)
(* region for each load whose driver could not be registered, and no       *)
(* other; and they leave a class only if there was such a load, though     *)
(* class_create may have failed unseen in any of them.                     *)
(***************************************************************************)
NothingLeft ==
  /\ \A c \in Chans : pc[c] = "none" =>
       /\ \A k \in Minors : cdevs[k] # c
       /\ ~ ept[c] /\ kfifo[c] # "live" /\ local[c] # "live"
  /\ mod = "out" => regions = refused /\ (class => refused > 0)

(***************************************************************************)
(* Unloading ends: fini waits for the bus to remove every bound channel,   *)
(* and then the class and the region of this load are gone.  It takes a    *)
(* class: if class_create failed, unseen, remove does not come back from   *)
(* device_destroy, and unloading ends only if no channel is bound.         *)
(***************************************************************************)
UnloadEnds ==
  (mod = "exit" /\ (rpmsg_class \/ \A c \in Chans : pc[c] = "none")) ~>
    (mod = "out" /\ regions = refused /\ (class => refused > 0))

-----------------------------------------------------------------------------
(***************************************************************************)
(* The inductive invariant of the proofs: what a channel has at each place *)
(* of probe and remove, who owns which minor, and what the module has.     *)
(***************************************************************************)
HasKfifo == {"ept", "data", "send", "minor", "cdev", "node", "bound", "error1",
             "error2", "destroy", "cdevdel", "free", "oops"}
HasLocal == HasKfifo \cup {"kfifo", "removed"}
HasCdev  == {"node", "bound", "destroy", "cdevdel", "oops"}
HasMinor == HasCdev \cup {"cdev"}
HasEpt   == HasKfifo \ {"ept", "error1"}

MemInv ==
  \A c \in Chans :
    /\ pc[c] \in HasLocal => local[c] = "live"
    /\ local[c] = "live" => pc[c] \in HasLocal \cup {"failed"}
    /\ kfifo[c] = "live" <=> pc[c] \in HasKfifo

MsgInv ==
  \A c \in Chans :
    /\ proxy /\ ept[c] => pc[c] \in HasEpt
    /\ ~ proxy /\ ept[c] => pc[c] # "none"
    /\ ~ proxy /\ pc[c] = "send" => drvdata[c]
    /\ pc[c] = "ept" => proxy
    /\ pc[c] \in {"alloc", "kfifo", "ept", "send"} => ~ invited[c]
    /\ ~ proxy /\ pc[c] = "data" => ~ invited[c]
    /\ ept[c] /\ invited[c] =>
         (proxy /\ pc[c] = "data") \/ (drvdata[c] /\ local[c] = "live")

MinorInv ==
  /\ \A c \in Chans : pc[c] \in HasMinor => minor[c] \in Minors /\ minor[c] < next_minor
  /\ \A c, d \in Chans :
       c # d /\ pc[c] \in HasMinor /\ pc[d] \in HasMinor => minor[c] # minor[d]
  /\ \A k \in Minors, c \in Chans : cdevs[k] = c <=> (pc[c] \in HasCdev /\ minor[c] = k)
  /\ \A k \in nodes : rpmsg_class /\ \E c \in Chans : pc[c] \in {"bound", "destroy"} /\ minor[c] = k

ModInv ==
  /\ \A c \in Chans : pc[c] # "none" => mod \in {"in", "exit"}
  /\ rpmsg_class => class /\ mod # "out"
  /\ class /\ ~ rpmsg_class => refused > 0
  /\ regions = refused + IF mod \in {"register", "in", "exit"} THEN 1 ELSE 0

FileInv ==
  /\ \A c \in Chans : mod = "in" /\ pc[c] \in {"destroy", "cdevdel", "oops"} => minor[c] \in lost
  /\ \A f \in Files : file[f] # None =>
       /\ mod = "in"
       /\ \/ file[f] \in lost
          \/ \E c \in Chans : pc[c] \in {"node", "bound"} /\ minor[c] = file[f]

LifeInv == TypeOK /\ MemInv /\ MsgInv /\ MinorInv /\ ModInv /\ FileInv
=============================================================================
