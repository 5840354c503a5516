---------------------------- MODULE HookGateMC ----------------------------
(* Instances of HookGate for TLC: a file with a class and its method.      *)
EXTENDS HookGate, TLC

CONSTANTS s1, s2, f, cls, met, r1, w1

OneFile == cls :> f @@ met :> f
MethodInClass == cls :> cls @@ met :> cls

CliOwn == [s \in Session |-> s]

It(v, a) == [ver |-> v, acc |-> a]
Text(T) == [b \in Boundary |-> IF b \in DOMAIN T THEN T[b] ELSE Gone]
Write(p, T) ==
  [kind |-> "write", path |-> p, text |-> Text(T), hunk |-> {}, sigs |-> {}]
Edit(p, H, S, T) ==
  [kind |-> "edit", path |-> p, text |-> Text(T), hunk |-> H, sigs |-> S]
Put(p, T) == [kind |-> "write", path |-> p, text |-> Text(T)]
Remove(p) == [kind |-> "delete", path |-> p, text |-> Text(<<>>)]

EmptyRepo == {[files |-> {}, item |-> [b \in Boundary |-> Gone]]}

(* A class with its marker and a method that inherits from it.             *)
MarkedRepo ==
  {[files |-> {f},
    item |-> Text(cls :> It(1, cls) @@ met :> It(1, "inherit"))]}

NoEffects == {}
NoCalls == {}

(* Two agents in one file.                                                 *)
DuoCalls ==
  { Write(f, cls :> It(1, cls) @@ met :> It(1, "none")),
    Edit(f, {met}, {met}, met :> It(2, "none")) }
TwoSessions == Permutations(Session)
DuoUser == { Put(f, cls :> It(2, "none")) }

(* One agent and the CLI; shell commands rewrite the method without what   *)
(* accounts for it, give the class its marker in its place, and remove the *)
(* file.                                                                   *)
CliCalls == { Write(f, cls :> It(2, "none")) }
CliShell ==
  { Put(f, cls :> It(1, cls) @@ met :> It(2, "none")),
    Put(f, cls :> It(1, met)),
    Remove(f) }

(* What a user commits: a class without a marker, then one with a method.  *)
UserCommits ==
  { Put(f, cls :> It(1, "none")),
    Put(f, cls :> It(1, cls) @@ met :> It(1, "none")) }
===========================================================================
