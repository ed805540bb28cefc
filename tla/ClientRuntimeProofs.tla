------------------------ MODULE ClientRuntimeProofs ------------------------
(***************************************************************************)
(* Theorems about ClientRuntime, for any number of processes.              *)
(***************************************************************************)
EXTENDS ClientRuntime, TLAPS

(* A process that does not look like the tunnel, or is none, among those of f. *)
Looks(f, p) == f[p] # None /\ f[p].cmd \in {"start", "detach", "alike"}

(* What a process h, which runs under q beside the processes of f, knows of the
   one it saw: it was told when that process ended, has found it running before
   it stops it, and found it not running before it does away with its record. *)
Knows(f, q, h) ==
    /\ h.pc # "up" => h.cmd \in Commands
    /\ h.pc \in {"probe", "look", "term", "poll", "remove"} => h.saw # None
    /\ h.pc \in {"write", "rename"} => h.child # None
    /\ h.saw # None =>
         /\ f[h.saw.pid] = None => h.void
         /\ h.pc \in {"reread", "clear"} => h.void \/ ~Looks(f, h.saw.pid)
         /\ h.pc \in {"term", "poll"} => h.void \/ h.saw.fresh \/ Looks(f, h.saw.pid)
         /\ h.pc = "poll" => h.saw.pid # q
         /\ h.pc = "remove" => h.void

Consistent(f) ==
    /\ f \in [Pids -> Process \cup {None}]
    /\ \A q \in Pids : f[q] # None => Knows(f, q, f[q])

RuntimeInv == /\ file \in Record \cup {None} /\ tmp \in Record \cup {None}
              /\ Consistent(proc)

-----------------------------------------------------------------------------
(* The ways in which a step changes the processes.                         *)

(* A process goes on. *)
LEMMA StepKeeps ==
  ASSUME NEW f, Consistent(f), NEW q \in Pids, f[q] # None,
         NEW h \in Process, h.cmd = f[q].cmd, Knows(f, q, h)
  PROVE  Consistent([f EXCEPT ![q] = h])
  <1> DEFINE g == [f EXCEPT ![q] = h]
  <1>1. g \in [Pids -> Process \cup {None}]
    BY DEF Consistent
  <1>2. \A p \in Pids : g[p] = IF p = q THEN h ELSE f[p]
    BY DEF Consistent
  <1>3. h # None
    BY NoneAssumption
  <1>4. \A p \in Pids : (g[p] = None <=> f[p] = None) /\ (Looks(g, p) <=> Looks(f, p))
    BY <1>2, <1>3 DEF Looks
  <1> HIDE DEF g
  <1>5. ASSUME NEW p \in Pids, NEW k \in Process, Knows(f, p, k) PROVE Knows(g, p, k)
    <2>1. k.saw # None => k.saw.pid \in Pids
      BY DEF Process, Record
    <2>2. QED
      BY <1>4, <1>5, <2>1 DEF Knows
  <1>6. \A p \in Pids : g[p] # None => Knows(g, p, g[p])
    BY <1>1, <1>2, <1>5 DEF Consistent
  <1>7. QED
    BY <1>1, <1>6 DEF Consistent, g

(* A process begins under a PID that is free. *)
LEMMA RunKeeps ==
  ASSUME NEW f, Consistent(f), NEW q \in Pids, f[q] = None, NEW cmd \in Commands \cup Strangers
  PROVE  Consistent([f EXCEPT ![q] = Fresh(cmd)])
  <1> DEFINE g == [f EXCEPT ![q] = Fresh(cmd)]
  <1>1. /\ Fresh(cmd) \in Process /\ Fresh(cmd).saw = None
        /\ Fresh(cmd).pc \in {"up", "read"}
        /\ Fresh(cmd).pc # "up" => Fresh(cmd).cmd \in Commands
    BY DEF Fresh, Process
  <1>2. g \in [Pids -> Process \cup {None}]
    BY <1>1 DEF Consistent
  <1>3. \A p \in Pids : g[p] = IF p = q THEN Fresh(cmd) ELSE f[p]
    BY DEF Consistent
  <1> HIDE DEF g
  <1>4. Knows(g, q, Fresh(cmd))
    BY <1>1 DEF Knows
  <1>5. ASSUME NEW p \in Pids, NEW k \in Process, Knows(f, p, k) PROVE Knows(g, p, k)
    <2>1. k.saw # None => k.saw.pid \in Pids
      BY DEF Process, Record
    <2>2. ASSUME k.saw # None, k.saw.pid # q
          PROVE  g[k.saw.pid] = f[k.saw.pid] /\ (Looks(g, k.saw.pid) <=> Looks(f, k.saw.pid))
      BY <1>3, <2>1, <2>2 DEF Looks
    <2>3. ASSUME k.saw # None, k.saw.pid = q PROVE k.void
      BY <1>5, <2>3 DEF Knows
    <2>4. QED
      BY <1>5, <2>2, <2>3 DEF Knows
  <1>6. \A p \in Pids : g[p] # None => Knows(g, p, g[p])
    BY <1>2, <1>3, <1>4, <1>5 DEF Consistent
  <1>7. QED
    BY <1>2, <1>6 DEF Consistent, g

(* A process ends, and those that saw it are told. *)
LEMMA GoneKeeps ==
  ASSUME NEW f, Consistent(f), NEW p \in Pids
  PROVE  /\ Consistent(Gone(f, p))
         /\ Gone(f, p)[p] = None
         /\ \A q \in Pids \ {p} : f[q] # None =>
              LET k == Gone(f, p)[q]
              IN /\ k # None
                 /\ k.cmd = f[q].cmd /\ k.pc = f[q].pc /\ k.saw = f[q].saw /\ k.child = f[q].child
                 /\ f[q].saw # None /\ f[q].saw.pid = p => k.void
  <1> DEFINE g == Gone(f, p)
  <1>1. \A q \in Pids :
          g[q] = IF q = p THEN None
                 ELSE IF f[q] # None /\ f[q].saw # None /\ f[q].saw.pid = p
                      THEN [f[q] EXCEPT !.void = TRUE] ELSE f[q]
    BY DEF Gone
  <1>2. g = [q \in Pids |-> g[q]]
    BY DEF Gone
  <1> HIDE DEF g
  <1>3. ASSUME NEW q \in Pids, q # p, f[q] # None
        PROVE  /\ g[q] \in Process
               /\ g[q].cmd = f[q].cmd /\ g[q].pc = f[q].pc /\ g[q].saw = f[q].saw
               /\ g[q].child = f[q].child
               /\ f[q].void => g[q].void
               /\ f[q].saw # None /\ f[q].saw.pid = p => g[q].void
    <2>1. f[q] \in Process
      BY <1>3 DEF Consistent
    <2>2. CASE f[q].saw # None /\ f[q].saw.pid = p
      <3>1. g[q] = [f[q] EXCEPT !.void = TRUE]
        BY <1>1, <1>3, <2>2
      <3>2. QED
        BY <2>1, <3>1 DEF Process
    <2>3. CASE ~(f[q].saw # None /\ f[q].saw.pid = p)
      BY <1>1, <1>3, <2>1, <2>3
    <2>4. QED
      BY <2>2, <2>3
  <1>4. \A q \in Pids : f[q] = None => g[q] = None
    BY <1>1
  <1>5. g[p] = None
    BY <1>1
  <1>6. g \in [Pids -> Process \cup {None}]
    <2>1. \A q \in Pids : g[q] \in Process \cup {None}
      BY <1>3, <1>4, <1>5
    <2>2. QED
      BY <1>2, <2>1
  <1>7. ASSUME NEW q \in Pids, g[q] # None PROVE Knows(g, q, g[q])
    <2>1. q # p /\ f[q] # None /\ f[q] \in Process /\ Knows(f, q, f[q])
      BY <1>4, <1>5, <1>7 DEF Consistent
    <2>2. f[q].saw # None => f[q].saw.pid \in Pids
      BY <2>1 DEF Process, Record
    <2>3. ASSUME f[q].saw # None, f[q].saw.pid # p
          PROVE  /\ g[f[q].saw.pid] = None <=> f[f[q].saw.pid] = None
                 /\ Looks(g, f[q].saw.pid) <=> Looks(f, f[q].saw.pid)
      BY <1>3, <1>4, <2>2, <2>3, NoneAssumption DEF Looks
    <2>4. QED
      BY <1>3, <2>1, <2>3 DEF Knows
  <1>8. Consistent(g)
    BY <1>6, <1>7 DEF Consistent
  <1>9. \A q \in Pids \ {p} : f[q] # None => g[q] # None
    BY <1>3, NoneAssumption
  <1>10. QED
    BY <1>3, <1>5, <1>8, <1>9 DEF g

(* Records grow old. *)
LEMMA OlderRecord ==
  ASSUME NEW p \in Pids, NEW r \in Record \cup {None}
  PROVE  /\ Older(r, p) \in Record \cup {None}
         /\ r # None => Older(r, p) # None /\ Older(r, p).pid = r.pid
  <1>1. CASE r # None /\ r.pid = p
    <2>1. [r EXCEPT !.fresh = FALSE] \in Record /\ [r EXCEPT !.fresh = FALSE].pid = r.pid
      BY <1>1 DEF Record
    <2>2. QED
      BY <1>1, <2>1, NoneAssumption DEF Older
  <1>2. CASE ~(r # None /\ r.pid = p)
    BY <1>2 DEF Older
  <1>3. QED
    BY <1>1, <1>2

LEMMA AgeKeeps ==
  ASSUME RuntimeInv, NEW p \in Pids, Age(p)
  PROVE  RuntimeInv' /\ (file # None => file' # None)
  <1>1. /\ file' \in Record \cup {None} /\ tmp' \in Record \cup {None}
        /\ file # None => file' # None
    BY OlderRecord DEF RuntimeInv, Age
  <1>2. ASSUME NEW q \in Pids, proc[q] # None
        PROVE  /\ proc'[q] \in Process
               /\ proc'[q].cmd = proc[q].cmd /\ Knows(proc, q, proc'[q])
    <2>1. proc[q] \in Process /\ Knows(proc, q, proc[q])
      BY <1>2 DEF RuntimeInv, Consistent
    <2>2. CASE proc[q].pc \in {"probe", "look"}
      <3> DEFINE old == Older(proc[q].saw, p)
      <3>1. proc'[q] = [proc[q] EXCEPT !.saw = old]
        BY <1>2, <2>2 DEF Age
      <3>2. proc[q].saw \in Record \cup {None}
        BY <2>1 DEF Process
      <3>3. old \in Record \cup {None} /\ (proc[q].saw # None => old # None /\ old.pid = proc[q].saw.pid)
        BY <3>2, OlderRecord
      <3> HIDE DEF old
      <3>4. /\ proc'[q] \in Process /\ proc'[q].cmd = proc[q].cmd /\ proc'[q].pc = proc[q].pc
            /\ proc'[q].saw = old /\ proc'[q].void = proc[q].void
        BY <2>1, <3>1, <3>3 DEF Process
      <3>5. QED
        BY <2>1, <2>2, <3>3, <3>4 DEF Knows
    <2>3. CASE proc[q].pc \notin {"probe", "look"}
      <3>1. proc'[q] = proc[q]
        BY <1>2, <2>3 DEF Age
      <3>2. QED
        BY <2>1, <3>1
    <2>4. QED
      BY <2>2, <2>3
  <1>3. \A q \in Pids : proc[q] = None => proc'[q] = None
    BY DEF Age
  <1>4. \A q \in Pids : (proc'[q] = None <=> proc[q] = None) /\ (Looks(proc', q) <=> Looks(proc, q))
    BY <1>2, <1>3, NoneAssumption DEF Looks
  <1>5. proc' \in [Pids -> Process \cup {None}]
    <2>1. proc' = [q \in Pids |-> proc'[q]]
      BY DEF Age
    <2>2. QED
      BY <1>2, <1>3, <2>1
  <1>6. ASSUME NEW q \in Pids, proc'[q] # None PROVE Knows(proc', q, proc'[q])
    <2>1. proc'[q] \in Process /\ Knows(proc, q, proc'[q])
      BY <1>2, <1>3, <1>6
    <2>2. proc'[q].saw # None => proc'[q].saw.pid \in Pids
      BY <2>1 DEF Process, Record
    <2>3. QED
      BY <1>4, <2>1, <2>2 DEF Knows
  <1>7. QED
    BY <1>1, <1>5, <1>6 DEF RuntimeInv, Consistent

(* The answer of a check: it was asked for by a command of ours. *)
LEMMA AnswerKeeps ==
  ASSUME NEW f, Consistent(f), NEW q \in Pids, f[q] # None, f[q].cmd \in Commands,
         NEW running \in BOOLEAN, Answer(f, q, running),
         running => f[q].saw # None /\ (f[q].void \/ f[q].saw.fresh \/ Looks(f, f[q].saw.pid)),
         ~running /\ f[q].saw # None => f[q].void \/ ~Looks(f, f[q].saw.pid)
  PROVE  Consistent(proc')
  <1>1. f[q] \in Process /\ Knows(f, q, f[q])
    BY DEF Consistent
  <1>2. CASE proc' = [f EXCEPT ![q] = [f[q] EXCEPT !.pc = "read", !.round = 2]]
    <2> DEFINE h == [f[q] EXCEPT !.pc = "read", !.round = 2]
    <2>1. /\ h \in Process /\ h.cmd = f[q].cmd /\ h.pc = "read"
          /\ h.saw = f[q].saw /\ h.void = f[q].void
      BY <1>1 DEF Process
    <2> HIDE DEF h
    <2>2. Knows(f, q, h)
      BY <1>1, <2>1 DEF Knows
    <2>3. Consistent([f EXCEPT ![q] = h])
      BY <2>1, <2>2, StepKeeps
    <2>4. QED
      BY <1>2, <2>3 DEF h
  <1>3. CASE proc' = Gone(f, q)
    BY <1>3, GoneKeeps
  <1>4. ASSUME NEW next \in {"term", "reread", "clear"}, running <=> next = "term",
               proc' = [f EXCEPT ![q] = [f[q] EXCEPT !.pc = next]]
        PROVE  Consistent(proc')
    <2> DEFINE h == [f[q] EXCEPT !.pc = next]
    <2>1. /\ h \in Process /\ h.cmd = f[q].cmd /\ h.pc = next
          /\ h.saw = f[q].saw /\ h.void = f[q].void
      BY <1>1, <1>4 DEF Process
    <2> HIDE DEF h
    <2>2. Knows(f, q, h)
      BY <1>1, <1>4, <2>1 DEF Knows
    <2>3. Consistent([f EXCEPT ![q] = h])
      BY <2>1, <2>2, StepKeeps
    <2>4. QED
      BY <1>4, <2>3 DEF h
  <1>5. \/ proc' = [f EXCEPT ![q] = [f[q] EXCEPT !.pc = "read", !.round = 2]]
        \/ proc' = Gone(f, q)
        \/ \E next \in {"term", "reread", "clear"} :
             /\ running <=> next = "term"
             /\ proc' = [f EXCEPT ![q] = [f[q] EXCEPT !.pc = next]]
    <2>1. f \in [Pids -> Process \cup {None}]
      BY DEF Consistent
    <2>2. [f EXCEPT ![q].pc = "read", ![q].round = 2]
            = [f EXCEPT ![q] = [f[q] EXCEPT !.pc = "read", !.round = 2]]
      BY <2>1
    <2>3. /\ WhenRunning[f[q].cmd] \in {"end", "term"}
          /\ WhenNot[f[q].cmd] \in {"end", "reread", "clear"}
      BY DEF WhenRunning, WhenNot, Commands
    <2>4. QED
      BY <2>2, <2>3 DEF Answer
  <1>6. QED
    BY <1>2, <1>3, <1>4, <1>5

-----------------------------------------------------------------------------

LEMMA InitRuntime == Init => RuntimeInv
  BY DEF Init, RuntimeInv, Consistent

LEMMA CheckKeeps ==
  ASSUME RuntimeInv, NEW q \in Pids, Check(q)
  PROVE  RuntimeInv'
  <1>1. Consistent(proc) /\ file \in Record \cup {None} /\ tmp \in Record \cup {None}
    BY DEF RuntimeInv
  <1>2. /\ proc[q] # None /\ proc[q] \in Process /\ Knows(proc, q, proc[q])
        /\ proc[q].pc \in {"read", "probe", "look"} /\ proc[q].cmd \in Commands
        /\ proc[q].saw # None => proc[q].saw \in Record /\ proc[q].saw.pid \in Pids
        /\ proc[q].pc # "read" => proc[q].saw # None
    BY <1>1 DEF Check, Read, ProbeAlive, ProbeDead, LookRunning, LookOther, At, Consistent, Knows,
                Process, Record
  <1>3. file' \in Record \cup {None} /\ tmp' \in Record \cup {None}
    BY <1>1 DEF Check, Read, ProbeAlive, ProbeDead, LookRunning, LookOther
  <1>4. CASE Read(q) /\ file = None
    <2> DEFINE h == [proc[q] EXCEPT !.saw = None, !.void = FALSE]
               f == [proc EXCEPT ![q] = h]
    <2>1. Answer(f, q, FALSE)
      BY <1>1, <1>4 DEF Read, Consistent
    <2>2. /\ h \in Process /\ h.cmd = proc[q].cmd /\ h.saw = None /\ h.pc = proc[q].pc
          /\ proc[q].pc = "read"
      BY <1>2, <1>4 DEF Process, Read, At
    <2> HIDE DEF h
    <2>3. Knows(proc, q, h)
      BY <1>2, <2>2 DEF Knows
    <2>4. Consistent(f)
      BY <1>1, <1>2, <2>2, <2>3, StepKeeps
    <2>5. f[q] = h /\ h # None
      BY <1>1, <2>2, NoneAssumption DEF Consistent
    <2> HIDE DEF f
    <2>6. Consistent(proc')
      BY <1>2, <2>1, <2>2, <2>4, <2>5, AnswerKeeps
    <2>7. QED
      BY <1>3, <2>6 DEF RuntimeInv
  <1>5. CASE Read(q) /\ file # None
    <2> DEFINE h == [proc[q] EXCEPT !.pc = "probe", !.saw = file, !.void = (proc[file.pid] = None)]
    <2>1. proc' = [proc EXCEPT ![q] = h]
      BY <1>1, <1>5 DEF Read, Consistent
    <2>2. /\ h \in Process /\ h.cmd = proc[q].cmd /\ h.saw = file /\ h.pc = "probe"
          /\ h.void = (proc[file.pid] = None)
      BY <1>1, <1>2, <1>5 DEF Process
    <2> HIDE DEF h
    <2>3. Knows(proc, q, h)
      BY <1>2, <1>5, <2>2 DEF Knows
    <2>4. Consistent(proc')
      BY <1>1, <1>2, <2>1, <2>2, <2>3, StepKeeps
    <2>5. QED
      BY <1>3, <2>4 DEF RuntimeInv
  <1>6. CASE ProbeAlive(q)
    <2> DEFINE h == [proc[q] EXCEPT !.pc = "look"]
    <2>1. proc' = [proc EXCEPT ![q] = h] /\ proc[q].pc = "probe"
      BY <1>6 DEF ProbeAlive, Goto, At
    <2>2. /\ h \in Process /\ h.cmd = proc[q].cmd /\ h.saw = proc[q].saw /\ h.pc = "look"
          /\ h.void = proc[q].void
      BY <1>2 DEF Process
    <2> HIDE DEF h
    <2>3. Knows(proc, q, h)
      BY <1>2, <2>1, <2>2 DEF Knows
    <2>4. Consistent(proc')
      BY <1>1, <1>2, <2>1, <2>2, <2>3, StepKeeps
    <2>5. QED
      BY <1>3, <2>4 DEF RuntimeInv
  <1>7. CASE ProbeDead(q)
    <2>1. Answer(proc, q, FALSE) /\ proc[proc[q].saw.pid] = None /\ proc[q].pc = "probe"
      BY <1>7 DEF ProbeDead, Alive, At
    <2>2. proc[q].void
      BY <1>2, <2>1 DEF Knows
    <2>3. Consistent(proc')
      BY <1>1, <1>2, <2>1, <2>2, AnswerKeeps
    <2>4. QED
      BY <1>3, <2>3 DEF RuntimeInv
  <1>8. CASE LookRunning(q)
    <2>1. /\ Answer(proc, q, TRUE) /\ proc[q].pc = "look"
          /\ Looks(proc, proc[q].saw.pid) \/ proc[q].saw.fresh
      BY <1>8 DEF LookRunning, Believes, LooksLikeTunnel, Looks, At
    <2>2. Consistent(proc')
      BY <1>1, <1>2, <2>1, AnswerKeeps
    <2>3. QED
      BY <1>3, <2>2 DEF RuntimeInv
  <1>9. CASE LookOther(q)
    <2>1. Answer(proc, q, FALSE) /\ ~Looks(proc, proc[q].saw.pid)
      BY <1>9 DEF LookOther, Believes, LooksLikeTunnel, Looks
    <2>2. Consistent(proc')
      BY <1>1, <1>2, <2>1, AnswerKeeps
    <2>3. QED
      BY <1>3, <2>2 DEF RuntimeInv
  <1>10. QED
    BY <1>4, <1>5, <1>6, <1>7, <1>8, <1>9 DEF Check

LEMMA StartKeeps ==
  ASSUME RuntimeInv, NEW q \in Pids, StartSteps(q)
  PROVE  RuntimeInv'
  <1>1. Consistent(proc) /\ file \in Record \cup {None} /\ tmp \in Record \cup {None}
    BY DEF RuntimeInv
  <1>2. /\ proc[q] # None /\ proc[q] \in Process /\ Knows(proc, q, proc[q])
        /\ proc[q].pc \in {"reread", "spawn", "write", "rename"} /\ proc[q].cmd \in Commands
    BY <1>1 DEF StartSteps, Reread, Spawn, WriteTmp, Rename, WriteFails, At, Consistent, Knows
  <1>3. CASE Reread(q)
    <2> DEFINE h == [Fresh(proc[q].cmd) EXCEPT !.pc = IF proc[q].cmd = "detach" THEN "spawn" ELSE "up"]
    <2>1. proc' = [proc EXCEPT ![q] = h] /\ file' = None /\ UNCHANGED tmp
      BY <1>3 DEF Reread
    <2>2. h \in Process /\ h.cmd = proc[q].cmd /\ h.saw = None /\ h.pc \in {"spawn", "up"}
      BY <1>2 DEF Fresh, Process
    <2> HIDE DEF h
    <2>3. Knows(proc, q, h)
      BY <1>2, <2>2 DEF Knows
    <2>4. Consistent(proc')
      BY <1>1, <1>2, <2>1, <2>2, <2>3, StepKeeps
    <2>5. QED
      BY <1>1, <2>1, <2>4 DEF RuntimeInv
  <1>4. ASSUME NEW p \in Pids, Spawn(q, p) PROVE RuntimeInv'
    <2> DEFINE h == [proc[q] EXCEPT !.pc = "write", !.child = p]
               f == [proc EXCEPT ![q] = h]
    <2>1. proc[p] = None /\ proc[q].pc = "spawn" /\ UNCHANGED <<file, tmp>>
      BY <1>4 DEF Spawn, Alive, At
    <2>2. proc' = [f EXCEPT ![p] = Fresh("start")]
      <3>1. p # q
        BY <1>2, <2>1
      <3>2. proc' = [proc EXCEPT ![q].pc = "write", ![q].child = p, ![p] = Fresh("start")]
        BY <1>4 DEF Spawn
      <3>3. QED
        BY <1>1, <3>1, <3>2 DEF Consistent
    <2>3. /\ h \in Process /\ h.cmd = proc[q].cmd /\ h.pc = "write" /\ h.child = p
          /\ h.saw = proc[q].saw /\ h.void = proc[q].void
      BY <1>2 DEF Process
    <2> HIDE DEF h
    <2>4. Knows(proc, q, h)
      BY <1>2, <2>3, RuntimeAssumption DEF Knows
    <2>5. Consistent(f)
      BY <1>1, <1>2, <2>3, <2>4, StepKeeps
    <2>6. f[p] = None
      BY <1>1, <1>2, <2>1 DEF Consistent
    <2> HIDE DEF f
    <2>7. Consistent(proc')
      BY <2>2, <2>5, <2>6, RunKeeps DEF Commands
    <2>8. QED
      BY <1>1, <2>1, <2>7 DEF RuntimeInv
  <1>5. CASE WriteTmp(q)
    <2> DEFINE h == [proc[q] EXCEPT !.pc = "rename"]
    <2>1. /\ proc' = [proc EXCEPT ![q] = h] /\ proc[q].pc = "write" /\ UNCHANGED file
          /\ tmp' = [pid |-> proc[q].child, fresh |-> TRUE]
      BY <1>5 DEF WriteTmp, Goto, At
    <2>2. /\ h \in Process /\ h.cmd = proc[q].cmd /\ h.pc = "rename" /\ h.child = proc[q].child
          /\ h.saw = proc[q].saw /\ h.void = proc[q].void
      BY <1>2 DEF Process
    <2>3. proc[q].child \in Pids
      BY <1>2, <2>1 DEF Knows, Process
    <2>4. tmp' \in Record
      BY <2>1, <2>3 DEF Record
    <2> HIDE DEF h
    <2>5. Knows(proc, q, h)
      BY <1>2, <2>1, <2>2 DEF Knows
    <2>6. Consistent(proc')
      BY <1>1, <1>2, <2>1, <2>2, <2>5, StepKeeps
    <2>7. QED
      BY <1>1, <2>1, <2>4, <2>6 DEF RuntimeInv
  <1>6. CASE Rename(q)
    BY <1>1, <1>6, GoneKeeps DEF Rename, RuntimeInv
  <1>7. CASE WriteFails(q)
    <2>1. proc[q].child \in Pids
      BY <1>2, <1>7 DEF WriteFails, At, Knows, Process
    <2>2. Consistent(Gone(proc, proc[q].child))
      BY <1>1, <2>1, GoneKeeps
    <2>3. Consistent(proc')
      BY <1>7, <2>2, GoneKeeps DEF WriteFails
    <2>4. QED
      BY <1>1, <1>7, <2>3 DEF WriteFails, RuntimeInv
  <1>8. QED
    BY <1>3, <1>4, <1>5, <1>6, <1>7 DEF StartSteps

LEMMA StopKeeps ==
  ASSUME RuntimeInv, NEW q \in Pids, StopSteps(q)
  PROVE  RuntimeInv'
  <1>1. Consistent(proc) /\ file \in Record \cup {None} /\ tmp \in Record \cup {None}
    BY DEF RuntimeInv
  <1>2. /\ proc[q] # None /\ proc[q] \in Process /\ Knows(proc, q, proc[q])
        /\ proc[q].pc \in {"clear", "term", "poll", "remove"}
    BY <1>1 DEF StopSteps, Clear, Terminate, PollGone, Kill, RemoveStopped, At, Consistent
  <1>3. proc[q].pc # "clear" => proc[q].saw # None /\ proc[q].saw \in Record /\ proc[q].saw.pid \in Pids
    BY <1>2 DEF Knows, Process, Record
  (* The command goes on after another process, or none, has ended. *)
  <1>4. ASSUME NEW f, Consistent(f), NEW pc \in {"poll", "remove"},
               f[q] # None, f[q].cmd = proc[q].cmd, f[q].saw = proc[q].saw,
               f[q].pc \in {"term", "poll"}, proc[q].saw.pid # q,
               pc = "remove" => f[q].void,
               pc = "poll" => f[q].void \/ f[q].saw.fresh \/ Looks(f, f[q].saw.pid)
        PROVE  Consistent([f EXCEPT ![q].pc = pc])
    <2> DEFINE h == [f[q] EXCEPT !.pc = pc]
    <2>1. f[q] \in Process /\ Knows(f, q, f[q])
      BY <1>4 DEF Consistent
    <2>2. h \in Process /\ h.cmd = f[q].cmd /\ h.pc = pc /\ h.saw = f[q].saw /\ h.void = f[q].void
      BY <1>4, <2>1 DEF Process
    <2>3. [f EXCEPT ![q].pc = pc] = [f EXCEPT ![q] = h]
      BY <1>4 DEF Consistent
    <2> HIDE DEF h
    <2>4. Knows(f, q, h)
      BY <1>4, <2>1, <2>2 DEF Knows
    <2>5. QED
      BY <1>4, <2>2, <2>3, <2>4, StepKeeps
  <1>5. CASE Clear(q) \/ RemoveStopped(q)
    BY <1>1, <1>5, GoneKeeps DEF Clear, RemoveStopped, RuntimeInv
  <1>6. CASE Terminate(q)
    <2> SUFFICES Consistent(proc')
      BY <1>1, <1>6 DEF Terminate, RuntimeInv
    <2> DEFINE p == proc[q].saw.pid
    <2>1. p \in Pids /\ proc[q].pc = "term"
      BY <1>3, <1>6 DEF Terminate, At
    <2>2. \/ proc' = Gone(proc, q)
          \/ p # q /\ proc' = [Gone(proc, p) EXCEPT ![q].pc = "poll"]
          \/ p # q /\ proc' = [proc EXCEPT ![q].pc = "poll"]
      BY <1>6 DEF Terminate
    <2>3. CASE proc' = Gone(proc, q)
      BY <1>1, <2>3, GoneKeeps
    <2>4. CASE p # q /\ proc' = [Gone(proc, p) EXCEPT ![q].pc = "poll"]
      <3> DEFINE f == Gone(proc, p)
      <3>1. /\ Consistent(f) /\ f[q] # None /\ f[q].cmd = proc[q].cmd /\ f[q].saw = proc[q].saw
            /\ f[q].pc = "term" /\ f[q].void
        BY <1>1, <1>2, <1>3, <2>1, <2>4, GoneKeeps
      <3> HIDE DEF f
      <3>2. Consistent([f EXCEPT ![q].pc = "poll"])
        BY <1>4, <2>4, <3>1
      <3>3. QED
        BY <2>4, <3>2 DEF f
    <2>5. CASE p # q /\ proc' = [proc EXCEPT ![q].pc = "poll"]
      <3>1. proc[q].void \/ proc[q].saw.fresh \/ Looks(proc, proc[q].saw.pid)
        BY <1>2, <1>3, <2>1 DEF Knows
      <3>2. QED
        BY <1>1, <1>2, <1>4, <2>1, <2>5, <3>1
    <2>6. QED
      BY <2>2, <2>3, <2>4, <2>5
  <1>7. CASE PollGone(q)
    <2>1. proc[q].pc = "poll" /\ proc[proc[q].saw.pid] = None /\ proc' = [proc EXCEPT ![q].pc = "remove"]
      BY <1>7 DEF PollGone, Alive, At, Goto
    <2>2. proc[q].void /\ proc[q].saw.pid # q
      BY <1>2, <1>3, <2>1 DEF Knows
    <2>3. Consistent(proc')
      BY <1>1, <1>2, <1>4, <2>1, <2>2
    <2>4. QED
      BY <1>1, <1>7, <2>3 DEF PollGone, RuntimeInv
  <1>8. CASE Kill(q)
    <2> DEFINE p == proc[q].saw.pid
               f == Gone(proc, p)
    <2>1. proc[q].pc = "poll" /\ proc' = [f EXCEPT ![q].pc = "remove"] /\ UNCHANGED <<file, tmp>>
      BY <1>8 DEF Kill, At
    <2>2. p \in Pids /\ p # q
      BY <1>2, <1>3, <2>1 DEF Knows
    <2>3. /\ Consistent(f) /\ f[q] # None /\ f[q].cmd = proc[q].cmd /\ f[q].saw = proc[q].saw
          /\ f[q].pc = "poll" /\ f[q].void
      BY <1>1, <1>2, <1>3, <2>1, <2>2, GoneKeeps
    <2> HIDE DEF f
    <2>4. Consistent([f EXCEPT ![q].pc = "remove"])
      BY <1>4, <2>2, <2>3
    <2>5. QED
      BY <1>1, <2>1, <2>4 DEF RuntimeInv
  <1>9. QED
    BY <1>5, <1>6, <1>7, <1>8 DEF StopSteps

LEMMA NextRuntime == RuntimeInv /\ [Next]_runtimeVars => RuntimeInv'
  <1> SUFFICES ASSUME RuntimeInv, [Next]_runtimeVars PROVE RuntimeInv'
    OBVIOUS
  <1>1. ASSUME NEW q \in Pids, NEW cmd \in Commands \cup Strangers, Run(q, cmd) PROVE RuntimeInv'
    BY <1>1, RunKeeps DEF Run, Alive, RuntimeInv
  <1>2. ASSUME NEW q \in Pids, Exit(q) PROVE RuntimeInv'
    BY <1>2, GoneKeeps DEF Exit, RuntimeInv
  <1>3. ASSUME NEW q \in Pids, Age(q) PROVE RuntimeInv'
    BY <1>3, AgeKeeps
  <1>4. CASE UNCHANGED runtimeVars
    BY <1>4 DEF runtimeVars, RuntimeInv, Consistent, Knows, Looks
  <1>5. QED
    BY <1>1, <1>2, <1>3, <1>4, CheckKeeps, StartKeeps, StopKeeps DEF Next

(* File and processes have their types: a command that probes, stops or records
   a process knows which. *)
THEOREM TypeCorrect == Spec => []TypeOK
  <1>1. RuntimeInv => TypeOK
    BY DEF RuntimeInv, Consistent, Knows, TypeOK
  <1>2. QED
    BY <1>1, InitRuntime, NextRuntime, PTL DEF Spec

(* A stop removes the record only after its target's end, whatever processes
   come and go, and whoever is given the PID. *)
THEOREM StoppedAreGone == Spec => []StoppedIsGone
  <1>1. RuntimeInv => StoppedIsGone
    BY DEF RuntimeInv, Consistent, Knows, StoppedIsGone, At
  <1>2. QED
    BY <1>1, InitRuntime, NextRuntime, PTL DEF Spec

(* A stop signals a stranger only for a record not two minutes old, or under a
   PID that changed hands since it looked. *)
THEOREM StrangersAreSpared == Spec => SparesStrangers
  <1>1. ASSUME RuntimeInv, NEW q \in Pids, Terminate(q) \/ Kill(q), proc[proc[q].saw.pid] # None
        PROVE  LooksLikeTunnel(proc[q].saw.pid) \/ proc[q].saw.fresh \/ proc[q].void
    <2>1. proc[q] # None /\ proc[q].pc \in {"term", "poll"}
      BY <1>1 DEF Terminate, Kill, At
    <2>2. Knows(proc, q, proc[q]) /\ proc[q].saw # None
      BY <1>1, <2>1 DEF RuntimeInv, Consistent, Knows
    <2>3. QED
      BY <2>1, <2>2 DEF Knows, Looks, LooksLikeTunnel
  <1>2. RuntimeInv /\ [Next]_runtimeVars =>
          [\A q \in Pids : Terminate(q) \/ Kill(q) =>
             LET p == proc[q].saw.pid
             IN proc[p] # None => LooksLikeTunnel(p) \/ proc[q].saw.fresh \/ proc[q].void]_runtimeVars
    BY <1>1
  <1>3. QED
    BY <1>2, InitRuntime, NextRuntime, PTL DEF Spec, SparesStrangers

-----------------------------------------------------------------------------
(* The record of a tunnel that runs.                                       *)

(* An answer takes a command past its check. *)
LEMMA AnswerMoves ==
  ASSUME Consistent(proc), NEW q \in Pids, proc[q] # None, proc[q].cmd \in Commands,
         proc[q].pc \in {"probe", "look"}, NEW running \in BOOLEAN, Answer(proc, q, running)
  PROVE  proc'[q] # proc[q]
  <1>1. proc \in [Pids -> Process \cup {None}] /\ proc[q] \in Process
    BY DEF Consistent
  <1>2. WhenRunning[proc[q].cmd] \in {"end", "term"} /\ WhenNot[proc[q].cmd] \in {"end", "reread", "clear"}
    BY DEF WhenRunning, WhenNot, Commands
  <1>3. CASE proc' = Gone(proc, q)
    BY <1>3 DEF Gone
  <1>4. ASSUME NEW pc \in {"read", "term", "reread", "clear"}, proc' = [proc EXCEPT ![q].pc = pc]
        PROVE  proc'[q] # proc[q]
    <2>1. proc'[q] = [proc[q] EXCEPT !.pc = pc]
      BY <1>1, <1>4
    <2>2. proc'[q].pc = pc
      BY <1>1, <2>1 DEF Process
    <2>3. QED
      BY <2>2
  <1>5. CASE proc' = [proc EXCEPT ![q].pc = "read", ![q].round = 2]
    <2>1. proc'[q] = [proc[q] EXCEPT !.pc = "read", !.round = 2]
      BY <1>1, <1>5
    <2>2. proc'[q].pc = "read"
      BY <1>1, <2>1 DEF Process
    <2>3. QED
      BY <2>2
  <1>6. QED
    BY <1>2, <1>3, <1>4, <1>5 DEF Answer

(* No command that has read the record of a running tunnel, and found what it
   then removes, removes it. *)
THEOREM RecordIsKept == Spec => RecordKept
  <1>1. ASSUME RuntimeInv, [Next]_runtimeVars, file # None, LooksLikeTunnel(file.pid), file' = None
        PROVE  \E q \in Pids : proc[q] # None /\ proc'[q] # proc[q] /\ Outdated(q)
    <2>1. Consistent(proc) /\ file \in Record
      BY <1>1 DEF RuntimeInv
    <2>2. Looks(proc, file.pid)
      BY <1>1 DEF LooksLikeTunnel, Looks
    <2>3. \A q \in Pids : proc[q] # None => proc[q] \in Process /\ Knows(proc, q, proc[q])
      BY <2>1 DEF Consistent
    <2>4. ASSUME NEW q \in Pids, ProbeDead(q) \/ LookOther(q)
          PROVE  proc[q] # None /\ proc'[q] # proc[q] /\ Outdated(q)
      <3>1. /\ proc[q] # None /\ proc[q].pc \in {"probe", "look"} /\ Answer(proc, q, FALSE)
            /\ ~Looks(proc, proc[q].saw.pid)
        BY <2>4 DEF ProbeDead, LookOther, At, Alive, Believes, LooksLikeTunnel, Looks
      <3>2. proc[q].cmd \in Commands
        BY <2>3, <3>1 DEF Knows
      <3>3. proc'[q] # proc[q]
        BY <2>1, <3>1, <3>2, AnswerMoves
      <3>4. proc[q].saw # file
        BY <2>2, <3>1
      <3>5. QED
        BY <3>1, <3>3, <3>4 DEF Outdated
    <2>5. ASSUME NEW q \in Pids, Reread(q)
          PROVE  proc[q] # None /\ proc'[q] # proc[q] /\ Outdated(q)
      <3>1. proc[q] # None /\ proc[q].pc = "reread"
        BY <2>5 DEF Reread, At
      <3>2. Outdated(q)
        BY <1>1, <2>2, <2>3, <3>1 DEF Knows, Outdated
      <3>3. proc'[q].pc \in {"spawn", "up"}
        <4> DEFINE pc == IF proc[q].cmd = "detach" THEN "spawn" ELSE "up"
        <4>1. proc'[q] = [Fresh(proc[q].cmd) EXCEPT !.pc = pc]
          BY <2>1, <2>5 DEF Reread, Consistent
        <4>2. proc'[q].pc = pc
          BY <4>1 DEF Fresh
        <4>3. QED
          BY <4>2
      <3>4. QED
        BY <3>1, <3>2, <3>3
    <2>6. ASSUME NEW q \in Pids, Clear(q) \/ RemoveStopped(q)
          PROVE  proc[q] # None /\ proc'[q] # proc[q] /\ Outdated(q)
      <3>1. proc[q] # None /\ proc[q].pc \in {"clear", "remove"} /\ proc' = Gone(proc, q)
        BY <2>6 DEF Clear, RemoveStopped, At
      <3>2. proc'[q] = None
        BY <3>1 DEF Gone
      <3>3. Outdated(q)
        BY <1>1, <2>2, <2>3, <3>1 DEF Knows, Outdated
      <3>4. QED
        BY <3>1, <3>2, <3>3
    <2>7. ASSUME NEW q \in Pids, Rename(q) PROVE FALSE
      BY <1>1, <2>7 DEF Rename
    <2>8. ASSUME NEW q \in Pids, Age(q) PROVE FALSE
      BY <1>1, <2>8, AgeKeeps
    <2>9. CASE UNCHANGED file
      BY <1>1, <2>9
    <2>10. ASSUME NEW q \in Pids,
                  \/ \E cmd \in Commands \cup Strangers : Run(q, cmd)
                  \/ Exit(q) \/ Read(q) \/ ProbeAlive(q) \/ LookRunning(q)
                  \/ (\E p \in Pids : Spawn(q, p)) \/ WriteTmp(q) \/ WriteFails(q)
                  \/ Terminate(q) \/ PollGone(q) \/ Kill(q)
           PROVE  UNCHANGED file
      BY <2>10 DEF Run, Exit, Read, ProbeAlive, LookRunning, Spawn, WriteTmp, WriteFails, Terminate,
                   PollGone, Kill
    <2>11. QED
      BY <1>1, <2>4, <2>5, <2>6, <2>7, <2>8, <2>9, <2>10
         DEF Next, runtimeVars, Check, StartSteps, StopSteps
  <1>2. RuntimeInv /\ [Next]_runtimeVars =>
          [file # None /\ LooksLikeTunnel(file.pid) /\ file' = None
             => \E q \in Pids : proc[q] # None /\ proc'[q] # proc[q] /\ Outdated(q)]_runtimeVars
    BY <1>1
  <1>3. QED
    BY <1>2, InitRuntime, NextRuntime, PTL DEF Spec, RecordKept
=============================================================================
