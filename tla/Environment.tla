---------------------------- MODULE Environment ----------------------------
(***************************************************************************)
(* The evaluator's variable environment (pepl-eval/src/env.rs): a stack of *)
(* scopes, element 1 the global one.  A scope is total over Name and maps  *)
(* a name it does not bind to Unbound, so that the scopes of any program   *)
(* form one set.                                                           *)
(***************************************************************************)
EXTENDS Naturals, Sequences

CONSTANTS Name,     \* every name a program can bind
          Val,      \* the values the properties tell apart
          Unbound   \* what an unbound name maps to

Slot  == Val \cup {Unbound}
Scope == [Name -> Slot]

EmptyScope == [n \in Name |-> Unbound]

PushScope(env, scope) == Append(env, scope)

\* The global scope is never popped.
PopScope(env) == IF Len(env) > 1 THEN SubSeq(env, 1, Len(env) - 1) ELSE env

Define(env, n, v) == [env EXCEPT ![Len(env)][n] = v]

Binders(env, n) == {i \in DOMAIN env : env[i][n] # Unbound}

\* The innermost scope that binds n (of interest only when one does).
Binder(env, n) ==
  CHOOSE i \in Binders(env, n) : \A j \in Binders(env, n) : j <= i

IsBound(env, n) == Binders(env, n) # {}

Lookup(env, n) == IF IsBound(env, n) THEN env[Binder(env, n)][n] ELSE Unbound

\* `set`: overwrites the innermost binding, and does nothing without one.
Assign(env, n, v) ==
  IF IsBound(env, n) THEN [env EXCEPT ![Binder(env, n)][n] = v] ELSE env

SetOrDefine(env, n, v) ==
  IF IsBound(env, n) THEN Assign(env, n, v) ELSE Define(env, n, v)

RestoreGlobal(env, snapshot) == [env EXCEPT ![1] = snapshot]

\* What an expression sees: every name resolved innermost first.
View(env) == [n \in Name |-> Lookup(env, n)]
=============================================================================
