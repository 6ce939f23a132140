---------------------------- MODULE PkControlCalls ----------------------------
(***************************************************************************)
(* What PkControl promises its callers (spec sections 3 and 4.4): every    *)
(* asynchronous call, once issued, is resolved exactly once, by a value    *)
(* the method may return or by an error with the method's unset value.     *)
(***************************************************************************)
CONSTANTS CallIds, Ops, NULL

VARIABLES issued, resolved

GErr(d, c) == [dom |-> d, code |-> c]
Ok(v) == [ok |-> TRUE, val |-> v, err |-> NULL]
Fail(e) == [ok |-> FALSE, val |-> NULL, err |-> e]

Errors == {GErr(d, k) : d \in {"dbus", "pk_control"},
                        k \in {"SpawnChildExited", "NoReply", "Remote",
                               "CannotStartDaemon", "Failed"}}

\* The values a method may deliver: seconds are never zero, enum results are
\* never "unknown", set-proxy and get-properties acknowledge with TRUE.
Values(o) ==
  CASE o = "GetTimeSinceAction" -> {1}
    [] o = "GetNetworkState"    -> {"online", "offline"}
    [] o = "CanAuthorize"       -> {"yes", "no", "interactive"}
    [] o \in {"SetProxy", "GetProperties"} -> {TRUE}
    [] OTHER                    -> {"v"}

\* What a failed call returns beside its error: the "unset" value of the
\* method's return type (NULL, FALSE, zero seconds, an UNKNOWN enum), which
\* no successful call returns.
Unset(o) ==
  CASE o \in {"SetProxy", "GetProperties"} -> FALSE
    [] o = "GetTimeSinceAction"           -> 0
    [] o \in {"GetNetworkState", "CanAuthorize"} -> "unknown"
    [] OTHER                              -> NULL

Results(o) ==
  {Ok(v) : v \in Values(o)} \cup {[Fail(e) EXCEPT !.val = Unset(o)] : e \in Errors}

Init ==
  /\ issued = [c \in CallIds |-> NULL]
  /\ resolved = [c \in CallIds |-> NULL]

Issue(c, o) ==
  /\ issued[c] = NULL
  /\ issued' = [issued EXCEPT ![c] = o]
  /\ UNCHANGED resolved

Resolve(c) ==
  /\ issued[c] # NULL /\ resolved[c] = NULL
  /\ \E res \in Results(issued[c]) : resolved' = [resolved EXCEPT ![c] = res]
  /\ UNCHANGED issued

Next == \E c \in CallIds : Resolve(c) \/ \E o \in Ops : Issue(c, o)

Spec == Init /\ [][Next]_<<issued, resolved>> /\ \A c \in CallIds : WF_<<issued, resolved>>(Resolve(c))
=============================================================================
