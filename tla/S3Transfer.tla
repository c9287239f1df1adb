----------------------------- MODULE S3Transfer -----------------------------
(***************************************************************************)
(* One request of s3_kv_store seen from inside: the message that the S3    *)
(* client signs and the HTTP exchange that curl::session makes of it.  The *)
(* object is a page, downloaded to a page buffer, or the .meta text, which *)
(* the constructor of a store downloads to a string.                       *)
(*                                                                         *)
(* libcurl calls back with the response in pieces of any size, asks for    *)
(* the body of an upload in pieces of any size, and can lose the connection*)
(* at any moment (or fail to set the request up at all).  The server is the*)
(* environment: it refuses what is not signed or was signed too long ago,  *)
(* answers 404 for an object it does not hold, may answer another error,   *)
(* and the body of an error can be of any length.                          *)
(***************************************************************************)
EXTENDS Notary

CONSTANTS
  PageSize,   \* bytes in a page
  Byte,       \* byte values, 0 among them
  NoObject,   \* "the bucket holds no such object"
  ErrorByte,  \* a byte of the body of an error response
  MaxBody,    \* bound: bytes of an object or of the body of an error
  MaxTime     \* bound: the last instant

ASSUME SizesAssumption == PageSize \in Nat \ {0} /\ MaxBody \in Nat /\ MaxBody >= PageSize
ASSUME BytesAssumption == 0 \in Byte /\ ErrorByte \notin Byte

VARIABLES
  object,   \* what the server holds under the key
  path,     \* the key: a page's or ".meta"
  clock,    \* the time, the same for client and server
  notary,   \* s3_kv_store::m_notary
  request,  \* the operation in progress and what it uploads
  message,  \* the signed request sent for it
  upload,   \* body_copy: what read_callback has not handed out yet
  received, \* what the server has received of an upload
  applied,  \* has the upload replaced the object?
  code,     \* response code, 0 until the server has answered
  body,     \* what libcurl has not passed to the write callback yet
  buffer,   \* the page buffer or string a download goes to
  filled,   \* how much of the page buffer the write callback has filled
  result    \* how the last request ended; "lost" and "throws" are exceptions

client   == <<path, clock, notary>>
transfer == <<upload, received, code, body, filled>>
vars == <<object, client, request, message, applied, transfer, buffer, result>>

Page     == [1 .. PageSize -> Byte]
ZeroPage == [i \in 1 .. PageSize |-> 0]
Idle     == [op |-> "idle", content |-> ZeroPage]

Bodies(B) == UNION {[1 .. n -> B] : n \in 0 .. MaxBody}
ErrorBodies == Bodies({ErrorByte})

Rest(s, n) == SubSeq(s, n + 1, Len(s))

InProgress == request # Idle
Answered   == InProgress /\ code # 0

-----------------------------------------------------------------------------
Tick == clock < MaxTime /\ clock' = clock + 1
        /\ UNCHANGED <<object, path, notary, request, message, applied, transfer, buffer, result>>

(* Faulty: the header carries the time of the request, not the notary's.   *)
SigningTimeOfRequest == clock

SigningTime == notary.now

(* A session of curl sends a request for what the notary has signed.       *)
Send(op, content) ==
  /\ request' = [op |-> op, content |-> content]
  /\ message' = IF op = "put"
                THEN Message(notary', SigningTime', "PUT", "PUT", path, content)
                ELSE Message(notary', SigningTime', "GET", "GET", path, <<>>)
  /\ upload' = (IF op = "put" THEN content ELSE <<>>)
  /\ received' = <<>> /\ applied' = FALSE
  /\ code' = 0 /\ body' = <<>> /\ filled' = 0
  /\ result' = "none"

(* session::get(url, headers, out): the buffer is one a new page object    *)
(* allocated or one an evicted page leaves, so it holds any bytes.         *)
StartGet ==
  /\ ~InProgress /\ path # ".meta"
  /\ UNCHANGED <<object, client>>
  /\ Send("get", ZeroPage)
  /\ buffer' \in Page

(* session::put of a page, or of the text that flush prints.               *)
StartPut(content) ==
  /\ ~InProgress
  /\ path = ".meta" \/ content \in Page
  /\ UNCHANGED <<object, client>>
  /\ Send("put", content)
  /\ UNCHANGED buffer

(* The constructor of a store makes its notary and gets the .meta text.    *)
Open ==
  /\ ~InProgress
  /\ UNCHANGED <<object, path, clock>>
  /\ notary' = NotaryAt(clock)
  /\ IF path = ".meta"
     THEN Send("get_text", ZeroPage) /\ buffer' = <<>>
     ELSE UNCHANGED <<request, message, applied, transfer, buffer, result>>

(* Faulty: the view is not advanced past what was copied.                  *)
ReadCallbackStays(n) ==
  /\ request.op = "put" /\ code = 0
  /\ n <= Len(upload) /\ Len(received) < Len(request.content)
  /\ received' = received \o SubSeq(upload, 1, n)
  /\ UNCHANGED <<object, client, request, message, applied, upload, code, body, filled, buffer, result>>

(* read_callback copies what fits into libcurl's buffer of n bytes; libcurl*)
(* stops asking when it has the announced number of bytes.                 *)
ReadCallback(n) ==
  /\ request.op = "put" /\ code = 0
  /\ n <= Len(upload)
  /\ received' = received \o SubSeq(upload, 1, n)
  /\ upload' = Rest(upload, n)
  /\ UNCHANGED <<object, client, request, message, applied, code, body, filled, buffer, result>>

(* What the server makes of a request that is complete: it refuses one it  *)
(* cannot verify or that is too old, answers a GET, ...                    *)
Refused(content) == ~Verifies(message, content) \/ ~InTime(message, clock)

AnswerGet ==
  /\ request.op \in {"get", "get_text"} /\ code = 0
  /\ \/ Refused(<<>>) /\ code' = 403 /\ body' \in ErrorBodies
     \/ ~Refused(<<>>) /\ object # NoObject /\ code' = 200 /\ body' = object
     \/ ~Refused(<<>>) /\ object = NoObject /\ code' = 404 /\ body' \in ErrorBodies
     \/ code' = 500 /\ body' \in ErrorBodies
  /\ UNCHANGED <<object, client, request, message, applied, upload, received, filled,
                 buffer, result>>

(* ... and applies a complete upload.  It may fail after it has replaced   *)
(* the object; its answer goes to a string, which takes any body.          *)
AnswerPut ==
  /\ request.op = "put" /\ code = 0
  /\ Len(received) = Len(request.content)
  /\ \/ Refused(received) /\ code' = 403 /\ UNCHANGED <<object, applied>>
     \/ ~Refused(received) /\ code' \in {200, 500} /\ object' = received /\ applied' = TRUE
     \/ code' = 500 /\ UNCHANGED <<object, applied>>
  /\ UNCHANGED <<client, request, message, upload, received, body, filled, buffer, result>>

(* The write callback of a download.  An error body goes to the buffer too.*)
WriteCallback(n) ==
  /\ Answered /\ request.op = "get"
  /\ n <= Len(body) /\ n <= PageSize - filled
  /\ buffer' = [i \in 1 .. PageSize |->
                  IF i \in filled + 1 .. filled + n THEN body[i - filled] ELSE buffer[i]]
  /\ filled' = filled + n
  /\ body' = Rest(body, n)
  /\ UNCHANGED <<object, client, request, message, applied, upload, received, code, result>>

(* The write callback of a download to a string.                           *)
AppendCallback(n) ==
  /\ Answered /\ request.op = "get_text"
  /\ n <= Len(body)
  /\ buffer' = buffer \o SubSeq(body, 1, n)
  /\ body' = Rest(body, n)
  /\ UNCHANGED <<object, client, request, message, applied, upload, received, code, filled,
                 result>>

End(how) ==
  /\ request' = Idle
  /\ result' = how
  /\ UNCHANGED <<object, client, message, applied, transfer>>

(* A piece that does not fit makes the callback throw.                     *)
WriteCallbackThrows ==
  /\ Answered /\ request.op = "get"
  /\ Len(body) > PageSize - filled
  /\ End("throws") /\ UNCHANGED buffer

(* curl_easy_perform reports an error: perform_request throws.             *)
ConnectionLost == InProgress /\ End("lost") /\ UNCHANGED buffer

(* The response is complete.  throw_for_status lets 200 through; of the    *)
(* rest, s3_kv_store::read catches 404 and clears the page, the constructor*)
(* catches it and goes on without a .meta text.                            *)
Complete == Answered /\ body = <<>>

(* Faulty: the size of the object is not compared with the page size.      *)
ReturnPageAnySize ==
  /\ Complete /\ request.op = "get" /\ code = 200
  /\ End("ok") /\ UNCHANGED buffer

ReturnPage ==
  /\ Complete /\ request.op = "get" /\ code = 200
  /\ End(IF filled = PageSize THEN "ok" ELSE "throws")
  /\ UNCHANGED buffer

ReturnZeroPage ==
  /\ Complete /\ request.op = "get" /\ code = 404
  /\ End("ok")
  /\ buffer' = ZeroPage

ReturnText ==
  /\ Complete /\ request.op = "get_text" /\ code = 200
  /\ End("ok") /\ UNCHANGED buffer

ReturnAbsent ==
  /\ Complete /\ request.op = "get_text" /\ code = 404
  /\ End("absent") /\ UNCHANGED buffer

ReturnPut ==
  /\ Complete /\ request.op = "put" /\ code = 200
  /\ End("ok") /\ UNCHANGED buffer

ThrowForStatus ==
  /\ Complete /\ code # 200
  /\ request.op # "put" => code # 404
  /\ End("throws") /\ UNCHANGED buffer

-----------------------------------------------------------------------------
(* The object may be of another size: that of a file made with other       *)
(* parameters.                                                             *)
Init ==
  /\ object \in Bodies(Byte) \cup {NoObject}
  /\ path \in {"0", ".meta"}
  /\ clock = 0
  /\ notary = NotaryAt(0)
  /\ request = Idle /\ message = <<>>
  /\ upload = <<>> /\ received = <<>> /\ applied = FALSE
  /\ code = 0 /\ body = <<>> /\ filled = 0
  /\ buffer = ZeroPage
  /\ result = "none"

Next ==
  \/ Tick
  \/ StartGet
  \/ \E content \in Bodies(Byte) : StartPut(content)
  \/ Open
  \/ \E n \in 1 .. MaxBody : ReadCallback(n) \/ WriteCallback(n) \/ AppendCallback(n)
  \/ AnswerGet \/ AnswerPut
  \/ WriteCallbackThrows \/ ConnectionLost
  \/ ReturnPage \/ ReturnZeroPage \/ ReturnText \/ ReturnAbsent \/ ReturnPut
  \/ ThrowForStatus

Spec == Init /\ [][Next]_vars

-----------------------------------------------------------------------------
(* Properties                                                              *)

(* The pieces libcurl asks for, of whatever sizes, are the content: what   *)
(* the server has is what was handed out, each byte once and in order.     *)
UploadsInOrder ==
  request.op = "put" => received \o upload = request.content

(* S3 can verify every request of a session, also when midnight passes     *)
(* between the construction of the notary and the request: the only        *)
(* requests it refuses are those that reach it more than Window after the  *)
(* notary was made.                                                        *)
OnlyLateRequestsAreRefused ==
  Answered /\ code = 403 => clock > notary.now + Window

(* Requests are what the store takes them for.  In particular a page       *)
(* delivered whole is the object's and never has bytes left over from the  *)
(* page that had the buffer before, or bytes of an error body, and only a  *)
(* .meta object that is not there makes a file new.                        *)
Atomic == INSTANCE AtomicObject WITH
  Content <- Bodies(Byte),
  result  <- [status  |-> IF result = "lost" THEN "throws" ELSE result,
              content |-> IF result = "ok" /\ ~applied THEN buffer ELSE ZeroPage]

ImplementsAtomicObject == Atomic!Spec
=============================================================================
