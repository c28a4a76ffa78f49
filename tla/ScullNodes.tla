----------------------------- MODULE ScullNodes -----------------------------
(***************************************************************************)
(* scull under its two scripts: dynamic_device_alloc.sh loads the module   *)
(* and makes the nodes /dev/scull[0-3] for the major number the kernel     *)
(* gave it, device_delloc.sh unloads it and removes them.  Processes open  *)
(* devices through the nodes, other drivers take numbers that are free,    *)
(* and a script may be killed between any two of its commands.             *)
(*                                                                         *)
(* The module extends Scull: insmod and rmmod start its loader, whose      *)
(* steps interleave with everything else.  One script runs at a time.      *)
(***************************************************************************)
EXTENDS Scull

CONSTANTS
  Majors,  \* major numbers the kernel can hand out
  NONE     \* no node, no number

ASSUME MajorsAssumption == Majors # {} /\ NONE \notin Majors

VARIABLES
  devno,   \* MAJOR(devno)
  nodes,   \* the major number of /dev/scull<n>, or NONE
  script,  \* the command a script is at
  major,   \* its shell variable
  k,       \* the node its next mknod makes
  clean,   \* its rm -f and every mknod so far have done their work
  result   \* what the last script that changed anything has completed

scriptVars == <<nodes, script, major, k, clean, result>>
allVars    == <<vars, devno, scriptVars>>

NodesInit ==
  /\ Init
  /\ devno = NONE /\ nodes = [n \in Devices |-> NONE]
  /\ script = "idle" /\ major = NONE /\ k = 0 /\ clean = FALSE /\ result = "removed"

-----------------------------------------------------------------------------
(* The module and its users                                                *)

\* alloc_chrdev_region hands out numbers that nobody else holds.
LoaderStep ==
  /\ Loader
  /\ IF pc = "region" /\ owner' = "scull"
       THEN devno' \in IF owner = "other" THEN Majors \ {devno} ELSE Majors
       ELSE UNCHANGED devno
  /\ UNCHANGED scriptVars

\* An open names a node, and reaches the device that has its numbers.
UserStep(f) ==
  /\ \/ \E n \in Devices, d \in Devices, mode \in {"O_RDONLY", "O_WRONLY"} :
          nodes[n] = devno /\ Minor(d) = n /\ scull_open(f, d, mode)
     \/ TrimWalk(f) \/ TrimReset(f) \/ scull_release(f)
  /\ UNCHANGED <<devno, scriptVars>>

Others == OtherDriver /\ UNCHANGED <<devno, scriptVars>>

-----------------------------------------------------------------------------
(* dynamic_device_alloc.sh                                                 *)

Command(from, to) == script = from /\ script' = to

Start ==
  /\ Command("idle", "insmod") \/ Command("idle", "rmmod")
  /\ UNCHANGED <<vars, devno, nodes, major, k, clean, result>>

\* insmod waits for a load or unload that is under way.  The kernel refuses a
\* module that is loaded, and may refuse any: || exit 1.
RunInsmod ==
  /\ pc \in {"idle", "failed"}
  /\ \/ Insmod /\ Command("insmod", "loading")
     \/ Command("insmod", "idle") /\ UNCHANGED vars
  /\ UNCHANGED <<devno, nodes, major, k, clean, result>>

InsmodReturn ==
  /\ pc \in {"idle", "failed"}
  /\ \/ mod = "live" /\ Command("loading", "rm") /\ result' = "broken"
     \/ mod = "unloaded" /\ Command("loading", "idle") /\ UNCHANGED result
  /\ UNCHANGED <<vars, devno, nodes, major, k, clean>>

NoNodes == [n \in Devices |-> NONE]

\* rm -f without sudo: only root may remove what is there; the script goes on.
RmStale ==
  /\ Command("rm", "awk")
  /\ \/ nodes' = NoNodes \/ UNCHANGED nodes
  /\ clean' = (nodes' = NoNodes)
  /\ UNCHANGED <<vars, devno, major, k, result>>

\* Faulty variant: the major number of an earlier load is used.
AwkSkipped ==
  /\ Command("awk", "mknod") /\ k' = 0
  /\ major' = IF major = NONE THEN devno ELSE major
  /\ UNCHANGED <<vars, devno, nodes, clean, result>>

\* The major number that /proc/devices lists for scull.
Awk ==
  /\ Command("awk", "mknod") /\ k' = 0
  /\ major' = IF owner = "scull" THEN devno ELSE NONE
  /\ UNCHANGED <<vars, devno, nodes, clean, result>>

\* mknod leaves a node that exists as it is, and may fail for other reasons; the
\* script goes on.
Mknod ==
  /\ k < NUM_DEVICES /\ k' = k + 1 /\ Command("mknod", "mknod")
  /\ \/ nodes[k] = NONE /\ nodes' = [nodes EXCEPT ![k] = major]
     \/ UNCHANGED nodes
  /\ clean' = (clean /\ nodes' # nodes)
  /\ UNCHANGED <<vars, devno, major, result>>

AllocReturn ==
  /\ k = NUM_DEVICES /\ Command("mknod", "idle")
  /\ result' = IF clean THEN "loaded" ELSE "broken"
  /\ UNCHANGED <<vars, devno, nodes, major, k, clean>>

-----------------------------------------------------------------------------
(* device_delloc.sh                                                        *)

RunRmmodThen(refused) ==
  /\ result' = "broken"
  /\ \/ Rmmod /\ Command("rmmod", "unloading")
     \/ /\ mod # "live" \/ \E f \in Files : file[f] # "closed"
        /\ Command("rmmod", refused) /\ UNCHANGED vars
  /\ UNCHANGED <<devno, nodes, major, k, clean>>

\* Faulty variant: the script tries again until rmmod succeeds.
RunRmmodRetry == RunRmmodThen("rmmod")

\* rmmod is refused while a file is open; the script goes on.
RunRmmod == RunRmmodThen("rm_nodes")

RmmodReturn ==
  /\ mod = "unloaded" /\ Command("unloading", "rm_nodes")
  /\ UNCHANGED <<vars, devno, nodes, major, k, clean, result>>

\* The script does not look whether rm has failed.
RmNodes ==
  /\ Command("rm_nodes", "idle")
  /\ \/ nodes' = NoNodes /\ result' = "removed"
     \/ UNCHANGED <<nodes, result>>
  /\ UNCHANGED <<vars, devno, major, k, clean>>

\* The script is interrupted; insmod and rmmod finish what they have begun.
Kill ==
  /\ script # "idle" /\ script' = "idle"
  /\ result' = IF script = "loading" THEN "broken" ELSE result
  /\ UNCHANGED <<vars, devno, nodes, major, k, clean>>

-----------------------------------------------------------------------------

Script ==
  \/ RunInsmod \/ InsmodReturn \/ RmStale \/ Awk \/ Mknod \/ AllocReturn
  \/ RunRmmod \/ RmmodReturn \/ RmNodes

NodesNext ==
  \/ LoaderStep \/ (\E f \in Files : UserStep(f)) \/ Others
  \/ Start \/ Script \/ Kill

NodesSpec == NodesInit /\ [][NodesNext]_allVars
NodesFairSpec == NodesSpec /\ WF_allVars(LoaderStep) /\ WF_allVars(Script)

-----------------------------------------------------------------------------
(* Properties                                                              *)

\* A load that ran to its end and could remove what was there gives every
\* device its node and no node to anyone else, whatever earlier scripts that
\* were killed, refused or not allowed to had left in /dev, and whoever has
\* taken the old numbers since; an unload leaves no node.
NodesAsLeft ==
  script = "idle" =>
    /\ result = "loaded"  => /\ mod = "live" /\ owner = "scull"
                             /\ \A n \in Devices : nodes[n] = devno
    /\ result = "removed" => nodes = NoNodes

\* No script waits for ever, also when a user never closes its file and rmmod
\* is refused, or when a load fails.
ScriptEnds == (script # "idle") ~> (script = "idle")

=============================================================================
