------------------------------- MODULE Parity -------------------------------
(***************************************************************************)
(* One program run twice: by the evaluator (SpaceEval) and as WebAssembly  *)
(* (SpaceWasm), driven by the same host calls and executing the same       *)
(* statements with the same values.  pepl-eval is the golden reference of  *)
(* the code generator, so the two must show the host the same state.       *)
(*                                                                         *)
(* Left out: `return`, credentials and locals with the names of fields,    *)
(* which the compiled module treats differently from the first use on.     *)
(* Budgets are taken to suffice: nothing happens once the evaluator's is   *)
(* spent, and the compiled module's is never reached.                      *)
(***************************************************************************)
EXTENDS Naturals, Sequences

CONSTANTS Field, Cred, Local, Derived, Val, Unbound, Trap, InitialVal,
          LocalVal, Nil, Derive(_, _), NumInvariants, Holds(_, _),
          Traps(_, _), EvalGas, WasmGas, MaxFrames,
          MaxLoops, MaxItems

VARIABLES env, credentials, egas, ephase, frames, eidx, esnapshot, eoutcome,
          ebefore, abandoned,
          state, wgas, wphase, entry, loops, widx, wsnapshot, woutcome,
          wbefore, returned,
          faulted,  \* history: a call failed since the last commit
          spoiled   \* history: the evaluator rolled back what the module
                    \* keeps, or recomputed what the module restores

evars == <<env, credentials, egas, ephase, frames, eidx, esnapshot, eoutcome,
           ebefore, abandoned>>
pwvars == <<state, wgas, wphase, entry, loops, widx, wsnapshot, woutcome,
            wbefore, returned>>
pvars == <<env, credentials, egas, ephase, frames, eidx, esnapshot, eoutcome,
           ebefore, abandoned, state, wgas, wphase, entry, loops, widx,
           wsnapshot, woutcome, wbefore, returned, faulted, spoiled>>
history == <<faulted, spoiled>>

E == INSTANCE SpaceEval
  WITH GasLimit <- EvalGas, gas <- egas, phase <- ephase, idx <- eidx,
       snapshot <- esnapshot, outcome <- eoutcome, before <- ebefore

\* No body binds the name of a field, a derived field or a credential: what
\* such a `let` changes in the compiled module is left to SpaceWasm.
NoLets(e, p) == {}
EveryName(p) == Field \cup {Derived[i] : i \in DOMAIN Derived} \cup Cred

W == INSTANCE SpaceWasm
  WITH Unset <- Nil, Lets <- NoLets, Reads <- EveryName,
       locals <- [n \in EveryName(0) |-> Nil],
       GasLimit <- WasmGas, gas <- wgas, phase <- wphase, idx <- widx,
       snapshot <- wsnapshot, outcome <- woutcome, before <- wbefore

\* What either module assumes of the constants.
ASSUME EvalAssumptions ==
  /\ E!DerivedAssumption /\ E!ValueAssumption /\ E!DeclarationOrder
  /\ E!InvariantReads /\ E!BoundsAssumption

ASSUME WasmAssumptions ==
  /\ W!WasmDerived /\ W!WasmValues /\ W!WasmExpressions /\ W!WasmOrder
  /\ Trap # Unbound

\* Derived expressions and invariants read fields, derived fields and
\* credentials only, and have the same value in both where these have: what
\* the two make of one expression on equal values is left to other tests.
ASSUME SameExpressions ==
  \A view \in E!Scope, rec \in W!Record :
    /\ \A n \in W!Key : view[n] = rec[n]
    /\ \A c \in Cred : view[c] = Nil
    => /\ \A i \in DOMAIN Derived : Derive(i, view) = Derive(i, W!WasmView(rec))
       /\ \A i \in 1..NumInvariants :
            Holds(i, view) <=> Holds(i, W!WasmView(rec))

-----------------------------------------------------------------------------

\* Both instances just constructed, from the same defaults.
PInit ==
  /\ E!Init
  /\ state = [n \in W!Key |-> env[1][n]]
  /\ wsnapshot = state /\ wbefore = state
  /\ wgas = 0 /\ wphase = "idle" /\ entry = "init"
  /\ loops = <<>> /\ widx = 1
  /\ woutcome = "none" /\ returned = FALSE
  /\ faulted = FALSE /\ spoiled = FALSE

BothIdle == ephase = "idle" /\ wphase = "idle"

\* The same call reaches both.
PCall ==
  /\ BothIdle
  /\ \/ E!Dispatch /\ W!DispatchAction
     \/ E!CallUpdate /\ W!Update
     \/ E!CallHandleEvent /\ W!HandleEvent
  /\ UNCHANGED history

PSet == \E f \in Field, v \in Val : E!SetStmt(f, v) /\ W!SetStmt(f, v)

PPlain ==
  /\ \/ \E n \in Local, v \in LocalVal : E!LetStmt(n, v)
     \/ \E n \in Local, v \in LocalVal \cup {Unbound} : E!EnterMatch(n, v)
  /\ W!PlainStmt

\* Leaving a match arm is no statement of the compiled code.
PExitMatch == E!ExitMatch /\ UNCHANGED pwvars

PFor ==
  \/ \E n \in Local, v \in LocalVal, len \in 1..MaxItems :
       E!EnterFor(n, v, len) /\ W!EnterFor(len)
  \/ \E v \in LocalVal : E!NextItem(v) /\ W!NextItem
  \/ E!ExitFor /\ W!ExitFor

PEndBody == E!EndBody /\ W!EndBody

\* A body ticks in the evaluator at every statement, in the module only at
\* calls and loop headers: here, at the loop headers.
PBody ==
  /\ \/ UNCHANGED wgas /\ (PSet \/ PPlain \/ PExitMatch \/ PEndBody)
     \/ PFor
  /\ UNCHANGED history

\* A statement fails in both.
PFail ==
  /\ egas < EvalGas
  /\ E!Fail /\ UNCHANGED wgas /\ W!TrapStmt
  /\ faulted' = TRUE
  /\ UNCHANGED spoiled

\* The evaluator's epilogue first, then the module's: they share nothing.
EvalEpilogue ==
  /\ egas < EvalGas \/ eidx > Len(Derived)
  /\ UNCHANGED pwvars
  /\ \/ E!DeriveStep /\ UNCHANGED history
     \/ E!DeriveFail /\ faulted' = TRUE /\ UNCHANGED spoiled
     \/ (E!StartChecks \/ E!CheckPass) /\ UNCHANGED history
     \/ /\ E!CheckFail
        /\ spoiled' = (spoiled \/ faulted \/ entry # "dispatch")
        /\ UNCHANGED faulted
     \/ E!Commit /\ faulted' = FALSE /\ UNCHANGED spoiled
     \/ E!RolledBack /\ UNCHANGED history

WasmEpilogue ==
  /\ ephase = "idle"
  /\ UNCHANGED wgas
  /\ \/ W!DeriveStep \/ W!EpilogueTrap \/ W!EndDerive
     \/ W!CheckPass \/ W!CheckFail \/ W!EndDispatch
  /\ UNCHANGED evars /\ UNCHANGED history

OutOfBudget == egas >= EvalGas /\ UNCHANGED pvars

Next == PCall \/ PBody \/ PFail \/ EvalEpilogue \/ WasmEpilogue \/ OutOfBudget

Spec == PInit /\ [][Next]_pvars

-----------------------------------------------------------------------------
\* Properties

Settled == BothIdle /\ egas <= EvalGas

\* Between calls the host reads the same value from every state field and
\* derived field of the two (state_snapshot and get_state), also after
\* failed calls, until the evaluator rolls back an update or an event, which
\* the module does not do, or any call while the derived fields are those of
\* a failed one, which it recomputes and the module restores.
\* Until then they also agree on which calls took effect: committed by one is
\* done in the other, rolled back by one is a violated invariant in the
\* other.
SameState ==
  Settled /\ ~spoiled =>
    /\ \A n \in W!Key : E!Lookup(env, n) = state[n]
    /\ eoutcome = "committed" <=> (woutcome = "done" /\ entry # "init")
    /\ eoutcome = "rolledback" <=> woutcome = "violated"
=============================================================================
