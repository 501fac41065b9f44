------------------------------ MODULE LaunchOnce ------------------------------
(***************************************************************************)
(* What internal/substrate promises of a launch (client.go: "re-issuing    *)
(* after an Ambiguous fault is safe"): the calls made for one generation   *)
(* of an entity share one instance, each is answered once, and an answer   *)
(* that names an instance or the lack of capacity is true when it is given.*)
(***************************************************************************)
CONSTANTS
  Caller,   \* the calls
  Failure   \* the classes a failed call may be given

VARIABLES
  exists,   \* the provider has the instance
  answer    \* what each call was told

lvars == <<exists, answer>>

LInit == exists = FALSE /\ answer = [c \in Caller |-> "none"]

\* The provider acts on a request, be it late.
Create == exists' = TRUE /\ UNCHANGED answer

Acknowledge(c) ==
  /\ answer[c] = "none"
  /\ exists' = TRUE
  /\ answer' = [answer EXCEPT ![c] = "ok"]

Refuse(c, class) ==
  /\ answer[c] = "none"
  /\ class = "CapacityExhausted" => ~exists
  /\ answer' = [answer EXCEPT ![c] = class]
  /\ UNCHANGED exists

LNext ==
  \/ Create
  \/ \E c \in Caller : Acknowledge(c) \/ \E class \in Failure : Refuse(c, class)

LSpec == LInit /\ [][LNext]_lvars
=============================================================================
