---------------------------- MODULE AtomicObject ----------------------------
(***************************************************************************)
(* What the store takes a request for one object to be: a GET of a page    *)
(* delivers the whole page the bucket holds, zeros when it holds none, or  *)
(* throws; a GET of a text delivers it whole, reports that it is absent,   *)
(* or throws; a PUT that returns has replaced the object by the whole of   *)
(* what was sent, one that throws has replaced it or left it alone.        *)
(***************************************************************************)
CONSTANTS Page, Content, ZeroPage, NoObject

VARIABLES
  object,    \* the object, or NoObject
  request,   \* the request in progress: its operation and what it sends
  applied,   \* has the PUT in progress replaced the object?
  result     \* how the last request ended, and what it delivered

vars == <<object, request, applied, result>>

Idle    == [op |-> "idle", content |-> ZeroPage]
Nothing == [status |-> "none", content |-> ZeroPage]

Init ==
  /\ request = Idle
  /\ applied = FALSE
  /\ result = Nothing

Start ==
  /\ request = Idle
  /\ request' \in [op : {"get", "get_text", "put"}, content : Content]
  /\ applied' = FALSE
  /\ result' = Nothing
  /\ UNCHANGED object

Apply ==
  /\ request.op = "put"
  /\ object' = request.content
  /\ applied' = TRUE
  /\ UNCHANGED <<request, result>>

End(status, content) ==
  /\ request' = Idle
  /\ result' = [status |-> status, content |-> content]
  /\ UNCHANGED <<object, applied>>

DeliveredPage ==
  /\ request.op = "get"
  /\ object \in Page \cup {NoObject}
  /\ End("ok", IF object = NoObject THEN ZeroPage ELSE object)

DeliveredText == request.op = "get_text" /\ object # NoObject /\ End("ok", object)

Absent == request.op = "get_text" /\ object = NoObject /\ End("absent", ZeroPage)

Replaced == request.op = "put" /\ applied /\ End("ok", ZeroPage)

Throws == request # Idle /\ End("throws", ZeroPage)

Next ==
  \/ Start \/ Apply
  \/ DeliveredPage \/ DeliveredText \/ Absent \/ Replaced \/ Throws

Spec == Init /\ [][Next]_vars
=============================================================================
