-------------------------------- MODULE Hooks --------------------------------
(***************************************************************************)
(* File systems that wrap another one (hook.go): WithHooks, and Chain,     *)
(* which builds the onion of several of them.                              *)
(*                                                                         *)
(* What WrapPut makes of a payload is modelled as a tag that names the     *)
(* hook and the key it was given, as an encryption with a key of its own   *)
(* would; WrapGet takes its tag off, and makes nothing of other data.      *)
(***************************************************************************)
EXTENDS Calls, SequencesExt

CONSTANTS Middlewares,  \* the hooks around each base or table, as Chain is given them
          Coders        \* the hooks with WrapPut and WrapGet; all have OnDelete

ASSUME HookAssumption ==
    /\ Middlewares \in [Base \cup Table -> Seq(Hook)]
    /\ \A h \in Hook : \E f \in Base \cup Table :
          \E i \in DOMAIN Middlewares[f] : Middlewares[f][i] = h
    /\ \A f, g \in Base \cup Table :
          \A i \in DOMAIN Middlewares[f], j \in DOMAIN Middlewares[g] :
             Middlewares[f][i] = Middlewares[g][j] => f = g /\ i = j
    /\ Coders \subseteq Hook

----------------------------------------------------------------------------
(* Chain: the first middleware wraps the file system, the last is what the *)
(* caller gets.                                                            *)
Chain(f) == Last(<<f>> \o Middlewares[f])

(* Variant with a mistake: the last middleware is the innermost.           *)
InnerReversed(h) ==
    LET f == CHOOSE g \in Base \cup Table : h \in ToSet(Middlewares[g])
        onion == <<f>> \o Reverse(Middlewares[f])
        i == CHOOSE j \in 2..Len(onion) : onion[j] = h
    IN  onion[i - 1]

Inner(h) ==
    LET f == CHOOSE g \in Base \cup Table : h \in ToSet(Middlewares[g])
        onion == <<f>> \o Middlewares[f]
        i == CHOOSE j \in 2..Len(onion) : onion[j] = h
    IN  onion[i - 1]

(* Variant with a mistake: what was read stays wrapped.                    *)
WrapGetNever(h, k, data) == data

WrapPut(h, k, data) == IF h \in Coders THEN Append(data, <<h, k>>) ELSE data

WrapGet(h, k, data) ==
    CASE h \notin Coders                                   -> data
      [] h \in Coders /\ data # <<>> /\ Last(data) = <<h, k>> -> Front(data)
      [] OTHER                                             -> <<>>

----------------------------------------------------------------------------
(* A hook passes a call on.  Put hands the wrapped reader down; Get and    *)
(* Delete have something to do when the call comes back.                   *)
Forward(p) ==
    /\ At(p, "call") /\ cur[p].fs \in Hook
    /\ cur[p].op \in {"get", "put", "delete", "copy", "batch"}
    /\ LET h == cur[p].fs
           inner == [cur[p] EXCEPT !.fs = Inner(h)]
       IN  Become(p, IF cur[p].op = "put"
                     THEN [inner EXCEPT !.data = WrapPut(h, cur[p].key, @)]
                     ELSE inner,
                  <<[at |-> "hook", call |-> cur[p]]>>)
    /\ UNCHANGED <<pc, store, events>>

(* Variant with a mistake: OnDelete runs whatever the inner Delete said.   *)
HookReturnsAlways(p) ==
    /\ At(p, "return") /\ stack[p] # <<>> /\ Top(p).at = "hook"
    /\ LET c == Top(p).call
       IN  /\ ans' = IF c.op = "get" /\ ans[p].res = "ok"
                     THEN [ans EXCEPT ![p].data = WrapGet(c.fs, c.key, @)]
                     ELSE ans
           /\ IF c.op = "delete"
              THEN Happens(p, <<"told", c.fs, c.key>>)
              ELSE UNCHANGED events
    /\ Pop(p)
    /\ UNCHANGED <<pc, cur, store>>

(* The call comes back to the hook: only a success is wrapped or reported. *)
HookReturns(p) ==
    /\ At(p, "return") /\ stack[p] # <<>> /\ Top(p).at = "hook"
    /\ LET c == Top(p).call
       IN  /\ ans' = IF c.op = "get" /\ ans[p].res = "ok"
                     THEN [ans EXCEPT ![p].data = WrapGet(c.fs, c.key, @)]
                     ELSE ans
           /\ IF c.op = "delete" /\ ans[p].res = "ok"
              THEN Happens(p, <<"told", c.fs, c.key>>)
              ELSE UNCHANGED events
    /\ Pop(p)
    /\ UNCHANGED <<pc, cur, store>>

HookStep(p) == Forward(p) \/ HookReturns(p)
=============================================================================
