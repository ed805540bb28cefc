--------------------------- MODULE ClientRuntime ---------------------------
(***************************************************************************)
(* The processes of one tunnel on a client machine, and the file that       *)
(* records the detached one (internal/tunnel/tunnel.go, runtime_state.go    *)
(* and the commands of cmd/fwdx/tunnel.go).                                 *)
(*                                                                         *)
(* Commands run side by side and share nothing but the file.  A step is one *)
(* system call, or one ps; the API of the server is not modelled, and a     *)
(* command that fails there, or is killed, is one that exits.  A PID is     *)
(* given to a new process as soon as it is free.                            *)
(***************************************************************************)
EXTENDS Naturals

CONSTANTS Pids,
          None

ASSUME RuntimeAssumption == None \notin Pids

VARIABLES file, \* run/<name>.json
          tmp,  \* run/<name>.json.tmp
          proc  \* what runs under a PID, None when nothing does

runtimeVars == <<file, tmp, proc>>

(* RuntimeState: the PID, and whether StartedAt is less than two minutes ago. *)
Record == [pid : Pids, fresh : BOOLEAN]

Commands == {"start", "detach", "stop", "delete", "force", "show"}

(* Processes of others: "alike" has tunnel, start and the name in its command
   line. *)
Strangers == {"alike", "other"}

(* round counts the checks of a command, saw is what the last one read, child
   the process a detached start has created.  void (history) says that the
   process saw names is gone. *)
Process == [cmd : Commands \cup Strangers,
            pc : {"read", "probe", "look", "reread", "spawn", "write", "rename", "up",
                  "clear", "term", "poll", "remove"},
            round : {1, 2}, saw : Record \cup {None}, void : BOOLEAN,
            child : Pids \cup {None}]

ASSUME NoneAssumption == None \notin Record \cup Process

Fresh(cmd) == [cmd |-> cmd, pc |-> IF cmd \in Strangers THEN "up" ELSE "read", round |-> 1,
               saw |-> None, void |-> FALSE, child |-> None]

Init ==
    /\ file = None /\ tmp = None
    /\ proc = [p \in Pids |-> None]

-----------------------------------------------------------------------------
(* Processes.                                                              *)

(* A dead child keeps its PID until its parent is gone. *)
Zombie(p) == proc[p] = None /\ \E q \in Pids : proc[q] # None /\ proc[q].child = p

(* isPIDRunning: kill -0 succeeds. *)
Alive(p) == proc[p] # None \/ Zombie(p)

(* A process is gone: commands that read its PID hold one that means nothing. *)
Gone(f, p) ==
    [q \in Pids |-> IF q = p THEN None
                    ELSE IF f[q] # None /\ f[q].saw # None /\ f[q].saw.pid = p
                         THEN [f[q] EXCEPT !.void = TRUE] ELSE f[q]]

Run(p, cmd) ==
    /\ ~Alive(p)
    /\ proc' = [proc EXCEPT ![p] = Fresh(cmd)]
    /\ UNCHANGED <<file, tmp>>

(* A process ends: it fails, it is killed, or its work is over. *)
Exit(p) ==
    /\ proc[p] # None
    /\ proc' = Gone(proc, p)
    /\ UNCHANGED <<file, tmp>>

(* Two minutes since the process p was recorded. *)
Older(r, p) == IF r # None /\ r.pid = p THEN [r EXCEPT !.fresh = FALSE] ELSE r

Age(p) ==
    /\ file' = Older(file, p) /\ tmp' = Older(tmp, p)
    /\ proc' = [q \in Pids |-> IF proc[q] = None THEN None
                               ELSE IF proc[q].pc \in {"probe", "look"}
                                    THEN [proc[q] EXCEPT !.saw = Older(@, p)] ELSE proc[q]]

-----------------------------------------------------------------------------
(* runtimeStateIfRunning.                                                  *)

At(q, pc) == proc[q] # None /\ proc[q].pc = pc
Goto(q, pc) == proc' = [proc EXCEPT ![q].pc = pc]

(* tunnel start is running already, stop has a target, and so on. *)
WhenRunning == [start |-> "end", detach |-> "end", stop |-> "term", delete |-> "end",
                force |-> "term", show |-> "end"]

WhenNot == [start |-> "reread", detach |-> "reread", stop |-> "clear", delete |-> "end",
            force |-> "clear", show |-> "end"]

(* A start checks once for Get, and ignores what it finds, and once more to
   decide; a forced delete checks before Stop does.  f is proc with what the
   check has changed. *)
Answer(f, q, running) ==
    LET cmd == f[q].cmd
        first == f[q].round = 1
        next == IF first /\ cmd = "force" THEN "end"
                ELSE IF running THEN WhenRunning[cmd] ELSE WhenNot[cmd]
    IN proc' = IF first /\ (cmd \in {"start", "detach"} \/ (cmd = "force" /\ running))
               THEN [f EXCEPT ![q].pc = "read", ![q].round = 2]
               ELSE IF next = "end" THEN Gone(f, q) ELSE [f EXCEPT ![q].pc = next]

Read(q) ==
    /\ At(q, "read")
    /\ IF file = None
       THEN Answer([proc EXCEPT ![q].saw = None, ![q].void = FALSE], q, FALSE)
       ELSE proc' = [proc EXCEPT ![q].pc = "probe", ![q].saw = file,
                                 ![q].void = (proc[file.pid] = None)]
    /\ UNCHANGED <<file, tmp>>

(* kill -0; the record of a dead process is removed. *)
ProbeAlive(q) ==
    /\ At(q, "probe") /\ Alive(proc[q].saw.pid)
    /\ Goto(q, "look")
    /\ UNCHANGED <<file, tmp>>

ProbeDead(q) ==
    /\ At(q, "probe") /\ ~Alive(proc[q].saw.pid)
    /\ file' = None
    /\ Answer(proc, q, FALSE)
    /\ UNCHANGED tmp

(* processLooksLikeTunnel: a start, detached or not, or a process that is none
   of ours. *)
LooksLikeTunnel(p) == proc[p] # None /\ proc[p].cmd \in {"start", "detach", "alike"}

(* A check that asks for the age of the record alone. *)
AgeOnly(q) == proc[q].saw.fresh

(* A check that kill -0 is enough for. *)
AnyProcess(q) == proc[q].saw # None

(* ps; a record of less than two minutes is believed. *)
Believes(q) == LooksLikeTunnel(proc[q].saw.pid) \/ proc[q].saw.fresh

LookRunning(q) ==
    /\ At(q, "look") /\ Believes(q)
    /\ Answer(proc, q, TRUE)
    /\ UNCHANGED <<file, tmp>>

LookOther(q) ==
    /\ At(q, "look") /\ ~Believes(q)
    /\ file' = None
    /\ Answer(proc, q, FALSE)
    /\ UNCHANGED tmp

-----------------------------------------------------------------------------
(* Start and StartDetached, after the check.                               *)

(* Whatever record there is by now is removed. *)
Reread(q) ==
    /\ At(q, "reread")
    /\ file' = None
    /\ proc' = [proc EXCEPT ![q] = [Fresh(proc[q].cmd) EXCEPT
                                      !.pc = IF proc[q].cmd = "detach" THEN "spawn" ELSE "up"]]
    /\ UNCHANGED tmp

(* A start that does not keep the PID of its child. *)
SpawnForgets(q, p) ==
    /\ At(q, "spawn") /\ ~Alive(p)
    /\ proc' = [proc EXCEPT ![q].pc = "write", ![p] = Fresh("start")]
    /\ UNCHANGED <<file, tmp>>

(* The child is a tunnel start of its own. *)
Spawn(q, p) ==
    /\ At(q, "spawn") /\ ~Alive(p)
    /\ proc' = [proc EXCEPT ![q].pc = "write", ![q].child = p, ![p] = Fresh("start")]
    /\ UNCHANGED <<file, tmp>>

(* writeRuntimeState: the record is written beside the file, under a name that
   all commands share, and renamed. *)
WriteTmp(q) ==
    /\ At(q, "write")
    /\ tmp' = [pid |-> proc[q].child, fresh |-> TRUE]
    /\ Goto(q, "rename")
    /\ UNCHANGED file

Rename(q) ==
    /\ At(q, "rename") /\ tmp # None
    /\ file' = tmp /\ tmp' = None
    /\ proc' = Gone(proc, q)

(* The record cannot be written, or is gone when it is renamed: the child is
   killed, if it is still there, and the command fails. *)
WriteFails(q) ==
    /\ At(q, "write") \/ At(q, "rename")
    /\ proc' = Gone(Gone(proc, proc[q].child), q)
    /\ UNCHANGED <<file, tmp>>

-----------------------------------------------------------------------------
(* Stop, after the check.                                                  *)

(* Not running: the record goes, and the command fails. *)
Clear(q) ==
    /\ At(q, "clear")
    /\ file' = None
    /\ proc' = Gone(proc, q)
    /\ UNCHANGED tmp

(* SIGTERM, which ends a process of ours at once; it may end the command itself,
   and fails when there is no process. *)
Terminate(q) ==
    LET p == proc[q].saw.pid IN
    /\ At(q, "term")
    /\ proc' = IF ~Alive(p) \/ p = q THEN Gone(proc, q)
               ELSE [(IF proc[p] # None /\ proc[p].cmd \in Commands THEN Gone(proc, p) ELSE proc)
                       EXCEPT ![q].pc = "poll"]
    /\ UNCHANGED <<file, tmp>>

PollGone(q) ==
    /\ At(q, "poll") /\ ~Alive(proc[q].saw.pid)
    /\ Goto(q, "remove")
    /\ UNCHANGED <<file, tmp>>

(* A stop that gives up after its five seconds. *)
KillGivesUp(q) ==
    /\ At(q, "poll") /\ Alive(proc[q].saw.pid)
    /\ Goto(q, "remove")
    /\ UNCHANGED <<file, tmp>>

(* Five seconds later: SIGKILL. *)
Kill(q) ==
    /\ At(q, "poll") /\ Alive(proc[q].saw.pid)
    /\ proc' = [Gone(proc, proc[q].saw.pid) EXCEPT ![q].pc = "remove"]
    /\ UNCHANGED <<file, tmp>>

RemoveStopped(q) ==
    /\ At(q, "remove")
    /\ file' = None
    /\ proc' = Gone(proc, q)
    /\ UNCHANGED tmp

-----------------------------------------------------------------------------

Check(q) == Read(q) \/ ProbeAlive(q) \/ ProbeDead(q) \/ LookRunning(q) \/ LookOther(q)

StartSteps(q) == Reread(q) \/ (\E p \in Pids : Spawn(q, p)) \/ WriteTmp(q) \/ Rename(q) \/ WriteFails(q)

StopSteps(q) == Clear(q) \/ Terminate(q) \/ PollGone(q) \/ Kill(q) \/ RemoveStopped(q)

Next ==
    \E q \in Pids :
        \/ \E cmd \in Commands \cup Strangers : Run(q, cmd)
        \/ Exit(q) \/ Age(q)
        \/ Check(q) \/ StartSteps(q) \/ StopSteps(q)

Spec == Init /\ [][Next]_runtimeVars

-----------------------------------------------------------------------------
(* Properties.                                                             *)

TypeOK ==
    /\ file \in Record \cup {None} /\ tmp \in Record \cup {None}
    /\ proc \in [Pids -> Process \cup {None}]
    /\ \A q \in Pids : proc[q] # None =>
          /\ proc[q].pc \in {"probe", "look", "term", "poll", "remove"} => proc[q].saw # None
          /\ proc[q].pc \in {"write", "rename"} => proc[q].child # None

(* A stop that comes to remove the record has seen its target end, or ended it. *)
StoppedIsGone == \A q \in Pids : At(q, "remove") => proc[q].void

(* What q saw is not what there is: another record, or another process. *)
Outdated(q) == proc[q].saw # file \/ proc[q].void

(* The record of a tunnel that runs is removed only by a command that read the
   file before the record was written, or that has ended the tunnel's process:
   no check, no start and no stop that saw it loses it. *)
RecordKept ==
    [][file # None /\ LooksLikeTunnel(file.pid) /\ file' = None
         => \E q \in Pids : proc[q] # None /\ proc'[q] # proc[q] /\ Outdated(q)]_runtimeVars

(* A stop signals a process that does not look like the tunnel only if the
   record was not two minutes old, or the PID changed hands under the command. *)
SparesStrangers ==
    [][\A q \in Pids : Terminate(q) \/ Kill(q) =>
          LET p == proc[q].saw.pid
          IN proc[p] # None => LooksLikeTunnel(p) \/ proc[q].saw.fresh \/ proc[q].void]_runtimeVars

(* "already running" means that another process is: claimed of tunnel start
   --detach, whose child finds the record its parent has written of it. *)
RefusesOnlyForAnother ==
    [][\A q \in Pids :
          At(q, "look") /\ proc[q].cmd = "start" /\ proc[q].round = 2 /\ LookRunning(q)
            => proc[q].saw.pid # q]_runtimeVars
=============================================================================
