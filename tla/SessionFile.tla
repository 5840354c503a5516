---------------------------- MODULE SessionFile ----------------------------
(***************************************************************************)
(* The session file as hooks/session_state.py keeps it: every accessor     *)
(* reads the whole file, changes its copy and writes the whole copy back   *)
(* through a temporary file and os.replace.  The hooks of one session are  *)
(* processes of their own and nothing locks the file, so between the read  *)
(* and the replacement of one accessor the others may run; a process may   *)
(* also be killed at any point.                                            *)
(***************************************************************************)
EXTENDS SessionOps

CONSTANTS
  Proc,     \* the hook and CLI processes using the session
  Request   \* the accessor calls they make: a subset of Store's Op

VARIABLES
  file,   \* the content of <session>.json
  proc,   \* what each process is in the middle of
  owed,   \* history: obligations reported as newly added since the last clear
  raced   \* history: somebody's write was overwritten with an older copy

vars == <<file, proc, owed, raced>>

(* The atomic store a session is until somebody races; from then on it is  *)
(* taken to be cleared.                                                    *)
Store == INSTANCE SessionStore WITH data <- IF raced THEN Blank ELSE file

ASSUME RequestAssumption == Request \subseteq Store!Op

(* stale: another process has replaced the file since this one read it     *)
(* (history).                                                              *)
Idle == [phase |-> "idle"]
Busy == [phase : {"read", "staged"}, op : Request, copy : SessionData,
         stale : BOOLEAN]

TypeOK ==
  /\ file \in SessionData
  /\ proc \in [Proc -> {Idle} \cup Busy]
  /\ owed \in SUBSET Boundary
  /\ raced \in BOOLEAN

Init ==
  /\ file = Blank
  /\ proc = [p \in Proc |-> Idle]
  /\ owed = {}
  /\ raced = FALSE

(* Accessors that return without writing.  clear_pending_spec_update pops  *)
(* the key and writes when it was there, even as an empty list, so with    *)
(* nothing pending it may do either.                                       *)
MaySkip(op, d) ==
  \/ op.name = "oblige" /\ d.obl[op.node] = "satisfied"
  \/ op.name = "resolve" /\ d.obl[op.node] = "none"
  \/ op.name = "clearBoot" /\ ~d.boot
  \/ op.name = "clearSpec" /\ d.spec = {}
  \/ op.name = "setReqs" /\ op.reqs = {}

MustSkip(op, d) == MaySkip(op, d) /\ op.name # "clearSpec"

(* _read.  clear() replaces the file without reading it; its copy is never *)
(* used.                                                                   *)
Read(p, op) ==
  /\ proc[p] = Idle
  /\ proc' = [proc EXCEPT ![p] =
       [phase |-> "read", op |-> op, copy |-> file, stale |-> FALSE]]
  /\ UNCHANGED <<file, owed, raced>>

(* Return after the read, nothing to write.                                *)
Skip(p) ==
  /\ proc[p].phase = "read"
  /\ MaySkip(proc[p].op, proc[p].copy)
  /\ proc' = [proc EXCEPT ![p] = Idle]
  /\ UNCHANGED <<file, owed, raced>>

(* _write, first half: mkstemp and json.dump into the temporary file.      *)
Stage(p) ==
  /\ proc[p].phase = "read"
  /\ ~MustSkip(proc[p].op, proc[p].copy)
  /\ proc' = [proc EXCEPT ![p] =
       [phase |-> "staged", op |-> proc[p].op, stale |-> proc[p].stale,
        copy |-> Store!Effect(proc[p].op, proc[p].copy)]]
  /\ UNCHANGED <<file, owed, raced>>

Behind(q) == proc[q] # Idle

(* _write, second half: os.replace.  The call then returns; add_obligation *)
(* reports a key it appended.                                              *)
Replace(p) ==
  /\ proc[p].phase = "staged"
  /\ file' = proc[p].copy
  /\ proc' = [q \in Proc |->
       IF q = p THEN Idle
       ELSE IF Behind(q) THEN [proc[q] EXCEPT !.stale = TRUE]
       ELSE proc[q]]
  /\ owed' = CASE proc[p].op.name = "oblige" -> owed \cup {proc[p].op.node}
               [] proc[p].op.name = "clear"  -> {}
               [] OTHER -> owed
  /\ raced' = (raced \/ (proc[p].stale /\ proc[p].op.name # "clear"))

(* Fault: the file is written in place, its obligations last.              *)
KillFault(p) ==
  /\ proc[p] # Idle
  /\ proc' = [proc EXCEPT ![p] = Idle]
  /\ file' = IF proc[p].phase = "staged"
             THEN [proc[p].copy EXCEPT !.obl = Blank.obl] ELSE file
  /\ UNCHANGED <<owed, raced>>

(* A hook killed by its timeout: what it staged is left in the temporary   *)
(* file and never read again.                                              *)
Kill(p) ==
  /\ proc[p] # Idle
  /\ proc' = [proc EXCEPT ![p] = Idle]
  /\ UNCHANGED <<file, owed, raced>>

Next ==
  \E p \in Proc :
    \/ \E op \in Request : Read(p, op)
    \/ Skip(p)
    \/ Stage(p)
    \/ Replace(p)
    \/ Kill(p)

Spec == Init /\ [][Next]_vars

-----------------------------------------------------------------------------
(* An obligation add_obligation reported as recorded stays in the file, as *)
(* pending or satisfied, until the session is cleared: "Obligations are    *)
(* durable" (session_state.py:238), whatever is killed and however the     *)
(* hooks overlap, as long as none writes back what another has replaced.   *)
ObligationsAreDurable == ~raced => \A b \in owed : file.obl[b] # "none"

(* The only way the file loses or revives an obligation without clear() is *)
(* a process that wrote back a copy read before another one's replacement: *)
(* a hook that overlapped no other never undoes anything.                  *)
LossNeedsOverlap ==
  [][ \A b \in Boundary :
        \/ file.obl[b] = "none"
        \/ file'.obl[b] = file.obl[b]
        \/ file.obl[b] = "pending" /\ file'.obl[b] = "satisfied"
        \/ \E p \in Proc : /\ proc[p].phase = "staged" /\ proc'[p] = Idle
                           /\ proc[p].stale \/ proc[p].op.name = "clear" ]_vars

(* Until a hook writes back what another has replaced, and so always when  *)
(* the hooks of a session run one at a time, the session is the atomic     *)
(* store: each step of its processes is one whole call, or none.           *)
ImplementsStore == Store!Spec
=============================================================================
