--------------------------- MODULE TransferProofs ---------------------------
(***************************************************************************)
(* Theorems about S3Transfer, for every page size, set of byte values,     *)
(* length of a day and acceptance window, and for requests of any length:  *)
(* the signature, the upload, and that every step of a transfer is a step  *)
(* of AtomicObject or leaves it unchanged (Atomicity, at the end).         *)
(***************************************************************************)
EXTENDS S3Transfer, SequenceTheorems, TLAPS

-----------------------------------------------------------------------------
(* The signature.                                                          *)

(* The headers of a message, as S3 looks them up by their names.           *)
LEMMA HeaderLookup ==
  ASSUME NEW m, NEW host, NEW hash, NEW date, NEW auth,
         m.headers = << [name |-> "host", value |-> host],
                        [name |-> "x-amz-content-sha256", value |-> hash],
                        [name |-> "x-amz-date", value |-> date],
                        [name |-> "Authorization", value |-> auth] >>
  PROVE  /\ HeaderOf(m, "host") = host
         /\ HeaderOf(m, "x-amz-content-sha256") = hash
         /\ HeaderOf(m, "x-amz-date") = date
         /\ HeaderOf(m, "Authorization") = auth
<1>1. DOMAIN m.headers = 1 .. 4
  OBVIOUS
<1>2. \A i \in 1 .. 4 : m.headers[i].name = "host" <=> i = 1
  OBVIOUS
<1>3. \A i \in 1 .. 4 : m.headers[i].name = "x-amz-content-sha256" <=> i = 2
  OBVIOUS
<1>4. \A i \in 1 .. 4 : m.headers[i].name = "x-amz-date" <=> i = 3
  OBVIOUS
<1>5. \A i \in 1 .. 4 : m.headers[i].name = "Authorization" <=> i = 4
  OBVIOUS
<1>6. HeaderOf(m, "host") = host
  <2>1. (CHOOSE i \in DOMAIN m.headers : m.headers[i].name = "host") = 1
    BY <1>1, <1>2
  <2> QED
    BY <2>1 DEF HeaderOf
<1>7. HeaderOf(m, "x-amz-content-sha256") = hash
  <2>1. (CHOOSE i \in DOMAIN m.headers : m.headers[i].name = "x-amz-content-sha256") = 2
    BY <1>1, <1>3
  <2> QED
    BY <2>1 DEF HeaderOf
<1>8. HeaderOf(m, "x-amz-date") = date
  <2>1. (CHOOSE i \in DOMAIN m.headers : m.headers[i].name = "x-amz-date") = 3
    BY <1>1, <1>4
  <2> QED
    BY <2>1 DEF HeaderOf
<1>9. HeaderOf(m, "Authorization") = auth
  <2>1. (CHOOSE i \in DOMAIN m.headers : m.headers[i].name = "Authorization") = 4
    BY <1>1, <1>5
  <2> QED
    BY <2>1 DEF HeaderOf
<1> QED
  BY <1>6, <1>7, <1>8, <1>9

(* The Authorization header is sent behind the signed ones.                *)
LEMMA SentHeadersAre ==
  ASSUME NEW now, NEW hash, NEW auth
  PROVE  SentHeaders(HeadersToSign(now, hash), auth) =
           << [name |-> "host", value |-> Host],
              [name |-> "x-amz-content-sha256", value |-> hash],
              [name |-> "x-amz-date", value |-> now],
              [name |-> "Authorization", value |-> auth] >>
<1> DEFINE h1 == [name |-> "host", value |-> Host]
           h2 == [name |-> "x-amz-content-sha256", value |-> hash]
           h3 == [name |-> "x-amz-date", value |-> now]
           h4 == [name |-> "Authorization", value |-> auth]
<1> SUFFICES Append(<<h1, h2, h3>>, h4) = <<h1, h2, h3, h4>>
  BY DEF SentHeaders, HeadersToSign
<1> HIDE DEF h1, h2, h3, h4
<1> DEFINE Some == {h1, h2, h3, h4}
<1>1. <<h1, h2, h3>> \in Seq(Some) /\ <<h1, h2, h3, h4>> \in Seq(Some)
  OBVIOUS
<1>2. Append(<<h1, h2, h3>>, h4) \in Seq(Some) /\ Len(Append(<<h1, h2, h3>>, h4)) = 4
  BY <1>1, AppendProperties
<1>3. \A i \in 1 .. 4 : Append(<<h1, h2, h3>>, h4)[i] = <<h1, h2, h3, h4>>[i]
  BY <1>1
<1> QED
  BY <1>1, <1>2, <1>3, SeqEqual

(* S3 makes the canonical request out of the message that the notary made  *)
(* before there was a message.                                             *)
LEMMA SignedHeadersAreSorted ==
  ASSUME NEW now, NEW hash
  PROVE  /\ Names(HeadersToSign(now, hash)) = SortedNames
         /\ \A m : HeaderOf(m, "host") = Host
                   /\ HeaderOf(m, "x-amz-content-sha256") = hash
                   /\ HeaderOf(m, "x-amz-date") = now
              => [i \in DOMAIN SortedNames |->
                    [name |-> SortedNames[i], value |-> HeaderOf(m, SortedNames[i])]]
                 = HeadersToSign(now, hash)
<1>1. Names(HeadersToSign(now, hash)) = SortedNames
  BY DEF Names, HeadersToSign, SortedNames
<1>2. ASSUME NEW m, HeaderOf(m, "host") = Host,
             HeaderOf(m, "x-amz-content-sha256") = hash, HeaderOf(m, "x-amz-date") = now
      PROVE  [i \in DOMAIN SortedNames |->
                [name |-> SortedNames[i], value |-> HeaderOf(m, SortedNames[i])]]
             = HeadersToSign(now, hash)
  BY <1>2 DEF HeadersToSign, SortedNames
<1> QED
  BY <1>1, <1>2

(* The names of the verbs are in the order of the enumeration.             *)
LEMMA VerbNames ==
  ASSUME NEW verb \in {"GET", "PUT"}
  PROVE  CanonicalVerb(verb) = verb
BY DEF CanonicalVerb, HTTPVerb, HTTP_VERB_NAMES

(* A message made with the notary's time, and sent with the method that    *)
(* was signed, is one S3 verifies.                                         *)
LEMMA MessageVerifies ==
  ASSUME NEW now \in Nat, NEW verb \in {"GET", "PUT"}, NEW key, NEW content
  PROVE  LET m == Message(NotaryAt(now), now, verb, verb, key, content)
         IN  /\ Verifies(m, content)
             /\ \A time \in Nat : InTime(m, time) <=> time <= now + Window
<1> DEFINE hash    == Sha256(content)
           headers == HeadersToSign(now, hash)
           uri     == <<Bucket, key>>
           auth    == AuthorizationHeader(NotaryAt(now), verb, uri, <<>>, headers, hash)
           m       == Message(NotaryAt(now), now, verb, verb, key, content)
<1>1. /\ m.method = verb /\ m.uri = uri /\ m.query = <<>>
      /\ m.headers = SentHeaders(headers, auth)
  BY DEF Message
<1>2. /\ HeaderOf(m, "host") = Host
      /\ HeaderOf(m, "x-amz-content-sha256") = hash
      /\ HeaderOf(m, "x-amz-date") = now
      /\ HeaderOf(m, "Authorization") = auth
  <2> HIDE DEF m, hash, auth
  <2>1. m.headers = << [name |-> "host", value |-> Host],
                       [name |-> "x-amz-content-sha256", value |-> hash],
                       [name |-> "x-amz-date", value |-> now],
                       [name |-> "Authorization", value |-> auth] >>
    BY <1>1, SentHeadersAre
  <2> QED
    BY <2>1, HeaderLookup
<1>3. ScopeOf(m) = Scope(Date(now))
  BY <1>2 DEF ScopeOf, DateOf, Scope, Date
<1>4. /\ auth.access_key = AccessKey
      /\ auth.scope = Scope(Date(now))
      /\ auth.signed_headers = SortedNames
      /\ auth.signature =
           Hmac(SigningKey(now, Region, SecretKey),
                StringToSign(now, CanonicalRequest(verb, uri, <<>>, headers, hash)))
  BY VerbNames, SignedHeadersAreSorted DEF AuthorizationHeader, NotaryAt
<1>5. SignatureByS3(m) =
        Hmac(SigningKey(now, Region, SecretKey),
             StringToSign(now, CanonicalRequest(verb, uri, <<>>, headers, hash)))
  <2> HIDE DEF m, hash, headers, uri
  <2>1. [i \in DOMAIN SortedNames |->
           [name |-> SortedNames[i], value |-> HeaderOf(m, SortedNames[i])]] = headers
    BY <1>2, SignedHeadersAreSorted DEF headers
  <2>2. Names(headers) = SortedNames
    BY SignedHeadersAreSorted DEF headers
  <2>3. DateOf(m) = Date(now)
    BY <1>2 DEF DateOf, Date
  <2> QED
    BY <1>1, <1>2, <1>3, <2>1, <2>2, <2>3
    DEF SignatureByS3, SigningKey, StringToSign, CanonicalRequest
<1>6. Verifies(m, content)
  <2> HIDE DEF m, auth
  <2> QED
    BY <1>2, <1>3, <1>4, <1>5 DEF Verifies
<1>7. \A time \in Nat : InTime(m, time) <=> time <= now + Window
  <2> HIDE DEF m
  <2> QED
    BY <1>2 DEF InTime
<1> QED
  BY <1>6, <1>7

-----------------------------------------------------------------------------
(* The inductive invariant.                                                *)

TransferTypeOK ==
  /\ clock \in Nat
  /\ notary.now \in Nat /\ notary = NotaryAt(notary.now)
  /\ request \in [op : {"idle", "get", "get_text", "put"}, content : Seq(Byte)]
  /\ upload \in Seq(Byte) /\ received \in Seq(Byte)
  /\ code \in {0, 200, 403, 404, 500}

SignedMessage ==
  IF request.op = "put"
  THEN Message(NotaryAt(notary.now), notary.now, "PUT", "PUT", path, request.content)
  ELSE Message(NotaryAt(notary.now), notary.now, "GET", "GET", path, <<>>)

IInv ==
  /\ TransferTypeOK
  /\ InProgress => message = SignedMessage
  /\ UploadsInOrder
  /\ OnlyLateRequestsAreRefused

(* A body is a sequence of bytes.                                          *)
LEMMA BodyIsSequence ==
  ASSUME NEW content \in Bodies(Byte)
  PROVE  content \in Seq(Byte)
BY SizesAssumption DEF Bodies

(* So is a page of zeros, which stands for the content of a GET.           *)
LEMMA ZeroPageIsSequence == ZeroPage \in Seq(Byte)
BY SizesAssumption, BytesAssumption DEF ZeroPage

(* An idle request is neither a GET nor a PUT.                             *)
LEMMA IdleRequest == ~InProgress => request.op = "idle"
BY DEF InProgress, Idle

(* S3 refuses the signed message, with the content that was signed, only   *)
(* when it is late.                                                        *)
LEMMA RefusedWhenLate ==
  ASSUME IInv, InProgress, NEW content, Refused(content),
         content = IF request.op = "put" THEN request.content ELSE <<>>
  PROVE  clock > notary.now + Window
<1> DEFINE now == notary.now
<1>1. now \in Nat /\ clock \in Nat /\ message = SignedMessage
  BY DEF IInv, TransferTypeOK
<1>2. CASE request.op = "put"
  <2>1. message = Message(NotaryAt(now), now, "PUT", "PUT", path, content)
    BY <1>1, <1>2 DEF SignedMessage
  <2> QED
    BY <1>1, <2>1, MessageVerifies, TimeAssumption DEF Refused
<1>3. CASE request.op # "put"
  <2>1. message = Message(NotaryAt(now), now, "GET", "GET", path, content)
    BY <1>1, <1>3 DEF SignedMessage
  <2> QED
    BY <1>1, <2>1, MessageVerifies, TimeAssumption DEF Refused
<1> QED
  BY <1>2, <1>3

(* The server has all of an upload when it has as many bytes.              *)
LEMMA CompleteUpload ==
  ASSUME IInv, request.op = "put", Len(received) = Len(request.content)
  PROVE  received = request.content
<1>1. /\ received \in Seq(Byte) /\ upload \in Seq(Byte)
      /\ received \o upload = request.content
  BY DEF IInv, TransferTypeOK, UploadsInOrder
<1>2. Len(upload) = 0
  BY <1>1, ConcatProperties, LenProperties
<1>3. upload = <<>>
  BY <1>1, <1>2, EmptySeq
<1> QED
  BY <1>1, <1>3, ConcatEmptySeq

(* Initially there is no request.                                          *)
LEMMA InitIInv == Init => IInv
<1> SUFFICES ASSUME Init PROVE IInv
  OBVIOUS
<1>1. ~InProgress /\ request.op = "idle"
  BY DEF Init, InProgress, Idle
<1>2. TransferTypeOK
  BY ZeroPageIsSequence DEF Init, TransferTypeOK, Idle, NotaryAt
<1> QED
  BY <1>1, <1>2 DEF IInv, UploadsInOrder, OnlyLateRequestsAreRefused, Answered

(* What a new request establishes, whichever notary it is signed with.     *)
LEMMA SendIInv ==
  ASSUME NEW op \in {"get", "get_text", "put"}, NEW content \in Seq(Byte),
         Send(op, content), clock' \in Nat,
         notary'.now \in Nat, notary' = NotaryAt(notary'.now),
         path' = path
  PROVE  IInv'
<1>1. TransferTypeOK'
  BY EmptySeq DEF Send, TransferTypeOK
<1>2. message' = SignedMessage'
  BY DEF Send, SignedMessage, SigningTime
<1>3. UploadsInOrder'
  BY ConcatEmptySeq DEF Send, UploadsInOrder
<1>4. OnlyLateRequestsAreRefused'
  BY DEF Send, OnlyLateRequestsAreRefused, Answered
<1> QED
  BY <1>1, <1>2, <1>3, <1>4 DEF IInv

(* A step of the transfer that leaves the request and its answer alone.    *)
LEMMA SameRequestIInv ==
  ASSUME IInv, UNCHANGED <<path, notary, request, message, code>>,
         clock' \in Nat, clock' >= clock,
         upload' \in Seq(Byte), received' \in Seq(Byte),
         request.op = "put" => received' \o upload' = received \o upload
  PROVE  IInv'
<1>1. TransferTypeOK'
  BY DEF IInv, TransferTypeOK
<1>2. InProgress' => message' = SignedMessage'
  BY DEF IInv, InProgress, SignedMessage, Idle, ZeroPage
<1>3. UploadsInOrder'
  BY DEF IInv, UploadsInOrder
<1>4. OnlyLateRequestsAreRefused'
  BY TimeAssumption
  DEF IInv, TransferTypeOK, OnlyLateRequestsAreRefused, Answered, InProgress, Idle, ZeroPage
<1> QED
  BY <1>1, <1>2, <1>3, <1>4 DEF IInv

(* The end of a request.                                                   *)
LEMMA EndIInv ==
  ASSUME IInv, NEW how, End(how)
  PROVE  IInv'
<1>1. ~InProgress' /\ request'.op = "idle"
  BY DEF End, InProgress, Idle, ZeroPage
<1>2. TransferTypeOK'
  BY ZeroPageIsSequence DEF IInv, TransferTypeOK, End, client, transfer, Idle
<1> QED
  BY <1>1, <1>2 DEF IInv, UploadsInOrder, OnlyLateRequestsAreRefused, Answered

(* Joined and Piece keep the provers from taking the sequences apart.      *)
Joined(s, t) == s \o t
Piece(s, n)  == SubSeq(s, 1, n)

(* Where sequences are joined makes no difference.                         *)
LEMMA JoinedIsAssociative ==
  ASSUME NEW S
  PROVE  \A s, t, u \in Seq(S) :
           Joined(s, t) \in Seq(S) /\ Joined(Joined(s, t), u) = Joined(s, Joined(t, u))
<1> SUFFICES ASSUME NEW s \in Seq(S), NEW t \in Seq(S), NEW u \in Seq(S)
             PROVE  s \o t \in Seq(S) /\ (s \o t) \o u = s \o (t \o u)
  BY DEF Joined
<1>1. (s \o t) \o u = s \o (t \o u)
  BY ConcatAssociative
<1> QED
  BY <1>1, ConcatProperties

(* A piece and the rest behind it are the whole.                           *)
LEMMA PieceAndRest ==
  ASSUME NEW S, NEW s \in Seq(S), NEW n \in 1 .. Len(s)
  PROVE  /\ Piece(s, n) \in Seq(S) /\ Rest(s, n) \in Seq(S)
         /\ Joined(Piece(s, n), Rest(s, n)) = s
<1>1. SubSeq(s, 1, n) \in Seq(S) /\ SubSeq(s, n + 1, Len(s)) \in Seq(S)
  <2>1. Len(s) \in Nat /\ \A i \in 1 .. Len(s) : s[i] \in S
    BY ElementOfSeq, LenProperties
  <2>2. SubSeq(s, 1, n) \in Seq(S)
    BY <2>1, SubSeqProperties
  <2>3. SubSeq(s, n + 1, Len(s)) \in Seq(S)
    BY <2>1, SubSeqProperties
  <2> QED
    BY <2>2, <2>3
<1>2. Len(s) \in Nat
  BY LenProperties
<1>3. SubSeq(s, 1, n) \o SubSeq(s, n + 1, Len(s)) = SubSeq(s, 1, Len(s))
  BY <1>2, ConcatAdjacentSubSeq
<1> QED
  BY <1>1, <1>3, SubSeqFull DEF Piece, Rest, Joined

(* So moving a piece leaves the two sequences together as they were.       *)
LEMMA PieceMoves ==
  ASSUME NEW S, NEW done \in Seq(S), NEW todo \in Seq(S), NEW n \in 1 .. Len(todo)
  PROVE  /\ Joined(done, Piece(todo, n)) \in Seq(S) /\ Rest(todo, n) \in Seq(S)
         /\ Joined(Joined(done, Piece(todo, n)), Rest(todo, n)) = Joined(done, todo)
BY JoinedIsAssociative, PieceAndRest

(* ReadCallback preserves the inductive invariant.                         *)
LEMMA ReadCallbackIInv ==
  ASSUME IInv, NEW n \in 1 .. MaxBody, ReadCallback(n)
  PROVE  IInv'
<1>1. /\ upload \in Seq(Byte) /\ received \in Seq(Byte)
      /\ n \in 1 .. Len(upload)
  BY SizesAssumption, LenProperties DEF IInv, TransferTypeOK, ReadCallback
<1>2. /\ received' = Joined(received, Piece(upload, n))
      /\ upload' = Rest(upload, n)
  BY DEF ReadCallback, Joined, Piece
<1>3. /\ received' \in Seq(Byte) /\ upload' \in Seq(Byte)
      /\ Joined(received', upload') = Joined(received, upload)
  BY <1>1, <1>2, PieceMoves
<1>4. clock' \in Nat /\ clock' >= clock
  BY DEF IInv, TransferTypeOK, ReadCallback, client
<1>5. UNCHANGED <<path, notary, request, message, code>>
  BY DEF ReadCallback, client
<1> QED
  BY <1>3, <1>4, <1>5, SameRequestIInv DEF Joined

(* What the server answers: a 403 only to a request that is late.          *)
LEMMA AnswerIInv ==
  ASSUME IInv, InProgress,
         UNCHANGED <<client, request, message, upload, received>>,
         code' \in {200, 403, 404, 500},
         code' = 403 => clock > notary.now + Window
  PROVE  IInv'
<1>1. TransferTypeOK'
  BY DEF IInv, TransferTypeOK, client
<1>2. InProgress' => message' = SignedMessage'
  BY DEF IInv, InProgress, SignedMessage, Idle, ZeroPage, client
<1>3. UploadsInOrder'
  BY DEF IInv, UploadsInOrder
<1>4. OnlyLateRequestsAreRefused'
  BY DEF OnlyLateRequestsAreRefused, Answered, client
<1> QED
  BY <1>1, <1>2, <1>3, <1>4 DEF IInv

(* AnswerGet preserves it, ...                                             *)
LEMMA AnswerGetIInv ==
  ASSUME IInv, AnswerGet
  PROVE  IInv'
<1>1. InProgress /\ request.op # "put"
  BY IdleRequest DEF AnswerGet
<1>2. UNCHANGED <<client, request, message, upload, received>>
  BY DEF AnswerGet
<1>3. code' \in {200, 403, 404, 500} /\ (code' = 403 => Refused(<<>>))
  BY DEF AnswerGet
<1> QED
  BY <1>1, <1>2, <1>3, RefusedWhenLate, AnswerIInv

(* ... and AnswerPut, for what has arrived is what was signed.             *)
LEMMA AnswerPutIInv ==
  ASSUME IInv, AnswerPut
  PROVE  IInv'
<1>1. InProgress /\ request.op = "put"
  BY IdleRequest DEF AnswerPut
<1>2. UNCHANGED <<client, request, message, upload, received>>
  BY DEF AnswerPut
<1>3. received = request.content
  BY <1>1, CompleteUpload DEF AnswerPut
<1>4. code' \in {200, 403, 404, 500} /\ (code' = 403 => Refused(received))
  BY DEF AnswerPut
<1> QED
  BY <1>1, <1>2, <1>3, <1>4, RefusedWhenLate, AnswerIInv

(* The notary is replaced only between requests.                           *)
LEMMA OpenIInv ==
  ASSUME IInv, Open
  PROVE  IInv'
<1>1. /\ clock' \in Nat /\ notary'.now \in Nat
      /\ notary' = NotaryAt(notary'.now) /\ path' = path
  BY DEF IInv, TransferTypeOK, Open, NotaryAt
<1>2. CASE path = ".meta"
  BY <1>1, <1>2, ZeroPageIsSequence, SendIInv DEF Open
<1>3. CASE path # ".meta"
  <2>1. ~InProgress' /\ request'.op = "idle"
    BY <1>3, IdleRequest DEF Open, InProgress, Idle, ZeroPage
  <2>2. TransferTypeOK'
    BY <1>1, <1>3 DEF IInv, TransferTypeOK, Open, transfer
  <2> QED
    BY <2>1, <2>2 DEF IInv, UploadsInOrder, OnlyLateRequestsAreRefused, Answered
<1> QED
  BY <1>2, <1>3

(* Each step keeps the invariant.                                          *)
LEMMA NextIInv ==
  ASSUME IInv, Next
  PROVE  IInv'
<1> USE DEF client, transfer
<1>0. /\ upload \in Seq(Byte) /\ received \in Seq(Byte) /\ clock \in Nat
      /\ notary.now \in Nat /\ notary = NotaryAt(notary.now)
  BY DEF IInv, TransferTypeOK
<1>1. CASE Tick
  BY <1>0, <1>1, SameRequestIInv DEF Tick
<1>2. CASE StartGet
  BY <1>0, <1>2, ZeroPageIsSequence, SendIInv DEF StartGet
<1>3. ASSUME NEW content \in Bodies(Byte), StartPut(content)
      PROVE  IInv'
  BY <1>0, <1>3, BodyIsSequence, SendIInv DEF StartPut
<1>4. CASE Open
  BY <1>4, OpenIInv
<1>5. ASSUME NEW n \in 1 .. MaxBody, ReadCallback(n)
      PROVE  IInv'
  BY <1>5, ReadCallbackIInv
<1>6. ASSUME NEW n \in 1 .. MaxBody, WriteCallback(n) \/ AppendCallback(n)
      PROVE  IInv'
  BY <1>0, <1>6, SameRequestIInv DEF WriteCallback, AppendCallback
<1>7. CASE AnswerGet
  BY <1>7, AnswerGetIInv
<1>8. CASE AnswerPut
  BY <1>8, AnswerPutIInv
<1>9. CASE WriteCallbackThrows \/ ConnectionLost
  BY <1>9, EndIInv DEF WriteCallbackThrows, ConnectionLost
<1>10. CASE ReturnPage \/ ReturnZeroPage \/ ReturnText \/ ReturnAbsent \/ ReturnPut
  BY <1>10, EndIInv
  DEF ReturnPage, ReturnZeroPage, ReturnText, ReturnAbsent, ReturnPut
<1>11. CASE ThrowForStatus
  BY <1>11, EndIInv DEF ThrowForStatus
<1> QED
  BY <1>1, <1>2, <1>3, <1>4, <1>5, <1>6, <1>7, <1>8, <1>9, <1>10, <1>11 DEF Next

(* It holds throughout.                                                    *)
LEMMA Invariance == Spec => []IInv
<1>1. IInv /\ UNCHANGED vars => IInv'
  <2> SUFFICES ASSUME IInv, UNCHANGED vars PROVE IInv'
    OBVIOUS
  <2> QED
    BY SameRequestIInv DEF IInv, TransferTypeOK, vars, client, transfer
<1>2. IInv /\ [Next]_vars => IInv'
  BY <1>1, NextIInv
<1> QED
  BY <1>2, InitIInv, PTL DEF Spec

-----------------------------------------------------------------------------
(* Theorems                                                                *)

(* Whatever the sizes of the pieces that libcurl asks for, and however long*)
(* the content is, read_callback hands out each byte once and in order.    *)
THEOREM UploadOrder == Spec => []UploadsInOrder
<1>1. IInv => UploadsInOrder
  BY DEF IInv
<1> QED
  BY <1>1, Invariance, PTL

(* However long the session and wherever midnight falls in it, the message *)
(* that inner_get and set_object sign is one S3 verifies: it refuses only  *)
(* requests that come later than the window allows.                        *)
THEOREM Acceptance == Spec => []OnlyLateRequestsAreRefused
<1>1. IInv => OnlyLateRequestsAreRefused
  BY DEF IInv
<1> QED
  BY <1>1, Invariance, PTL

-----------------------------------------------------------------------------
(* The transfer of an object in pieces, with libcurl's callbacks and       *)
(* errors, implements the atomic request of AtomicObject.                  *)

(* What a download has delivered, and what libcurl still has, are the      *)
(* object.                                                                 *)
PageArrives ==
  /\ object \in Seq(Byte) /\ object # NoObject
  /\ buffer \in Page /\ filled \in 0 .. PageSize
  /\ body \in Seq(Byte)
  /\ Len(object) = filled + Len(body)
  /\ \A i \in 1 .. filled : buffer[i] = object[i]
  /\ \A i \in 1 .. Len(body) : body[i] = object[filled + i]

TextArrives ==
  /\ object # NoObject
  /\ buffer \in Seq(Byte) /\ body \in Seq(Byte)
  /\ buffer \o body = object

DownloadInv ==
  /\ object \in Seq(Byte) \cup {NoObject}
  /\ InProgress => result = "none"
  /\ request.op \in {"get", "get_text"} => ~applied
  /\ request.op \in {"get", "get_text"} /\ code = 404 => object = NoObject
  /\ request.op = "get" /\ code = 0 => buffer \in Page /\ filled = 0
  /\ request.op = "get" /\ code = 200 => PageArrives
  /\ request.op = "get_text" /\ code = 0 => buffer = <<>>
  /\ request.op = "get_text" /\ code = 200 => TextArrives
  /\ request.op = "put" /\ code = 200 => applied

-----------------------------------------------------------------------------
(* The invariant.                                                          *)

(* There is no download at first.                                          *)
LEMMA InitDownload == Init => DownloadInv
<1> SUFFICES ASSUME Init PROVE DownloadInv
  OBVIOUS
<1>1. ~InProgress /\ request.op = "idle"
  BY DEF Init, InProgress, Idle
<1>2. object \in Seq(Byte) \cup {NoObject}
  BY BodyIsSequence DEF Init
<1> QED
  BY <1>1, <1>2 DEF DownloadInv

(* A new request has delivered nothing.                                    *)
LEMMA SendDownload ==
  ASSUME DownloadInv, NEW op \in {"get", "get_text", "put"}, NEW content,
         Send(op, content), UNCHANGED object,
         op = "get" => buffer' \in Page, op = "get_text" => buffer' = <<>>
  PROVE  DownloadInv'
BY DEF DownloadInv, Send

(* Nor is there anything to deliver when it has ended.                     *)
LEMMA EndDownload ==
  ASSUME DownloadInv, NEW how, End(how)
  PROVE  DownloadInv'
<1>1. ~InProgress' /\ request'.op = "idle"
  BY DEF End, InProgress, Idle, ZeroPage
<1> QED
  BY <1>1 DEF DownloadInv, End

(* A page of n bytes more: the pieces go one behind the other.             *)
LEMMA WriteCallbackDownload ==
  ASSUME IInv, DownloadInv, NEW n \in 1 .. MaxBody, WriteCallback(n)
  PROVE  DownloadInv'
<1> USE DEF WriteCallback, client
<1>1. UNCHANGED <<object, request, applied, code, result>> /\ request.op = "get" /\ code # 0
  BY DEF Answered
<1>2. InProgress' => InProgress
  BY <1>1 DEF InProgress, Idle, ZeroPage
<1>3. ASSUME code = 200
      PROVE  PageArrives'
  <2>1. PageArrives /\ n \in Nat /\ n >= 1 /\ n <= Len(body) /\ n <= PageSize - filled
    BY <1>1, <1>3, SizesAssumption DEF DownloadInv
  <2>2. /\ filled \in Nat /\ PageSize \in Nat /\ Len(body) \in Nat
        /\ \A i \in 1 .. Len(body) : body[i] \in Byte
    BY <2>1, SizesAssumption, LenProperties, ElementOfSeq DEF PageArrives
  <2>3. /\ body' \in Seq(Byte) /\ Len(body') = Len(body) - n
        /\ \A i \in 1 .. Len(body) - n : body'[i] = body[n + i]
    BY <2>1, <2>2, SubSeqProperties DEF Rest
  <2>4. filled' = filled + n /\ filled' \in 0 .. PageSize
    BY <2>1, <2>2
  <2>5. buffer' \in Page
    BY <2>1, <2>2 DEF PageArrives, Page
  <2>6. Len(object') = filled' + Len(body')
    BY <1>1, <2>1, <2>2, <2>3, <2>4 DEF PageArrives
  <2>7. \A i \in 1 .. filled' : buffer'[i] = object'[i]
    <3> SUFFICES ASSUME NEW i \in 1 .. filled + n
                 PROVE  buffer'[i] = object[i]
      BY <1>1, <2>4
    <3>1. i \in 1 .. PageSize
      BY <2>1, <2>2
    <3>2. CASE i <= filled
      <4>1. buffer'[i] = buffer[i]
        BY <2>2, <3>1, <3>2
      <4> QED
        BY <2>1, <2>2, <3>2, <4>1 DEF PageArrives
    <3>3. CASE i > filled
      <4>1. buffer'[i] = body[i - filled]
        BY <2>1, <2>2, <3>1, <3>3
      <4>2. i - filled \in 1 .. Len(body) /\ filled + (i - filled) = i
        BY <2>1, <2>2, <3>3
      <4> QED
        BY <2>1, <4>1, <4>2 DEF PageArrives
    <3> QED
      BY <2>2, <3>2, <3>3
  <2>8. \A i \in 1 .. Len(body') : body'[i] = object'[filled' + i]
    <3> SUFFICES ASSUME NEW i \in 1 .. Len(body) - n
                 PROVE  body[n + i] = object[filled + n + i]
      BY <1>1, <2>3, <2>4
    <3>1. n + i \in 1 .. Len(body) /\ filled + (n + i) = filled + n + i
      BY <2>1, <2>2
    <3> QED
      BY <2>1, <3>1 DEF PageArrives
  <2> QED
    BY <1>1, <2>1, <2>3, <2>4, <2>5, <2>6, <2>7, <2>8 DEF PageArrives
<1> QED
  BY <1>1, <1>2, <1>3 DEF DownloadInv

(* Nor does a piece of a text get lost or change its place.                *)
LEMMA AppendCallbackDownload ==
  ASSUME IInv, DownloadInv, NEW n \in 1 .. MaxBody, AppendCallback(n)
  PROVE  DownloadInv'
<1>1. UNCHANGED <<object, request, applied, code, result>> /\ request.op = "get_text" /\ code # 0
  BY DEF AppendCallback, client, Answered
<1>2. InProgress' => InProgress
  BY <1>1 DEF InProgress, Idle, ZeroPage
<1>3. ASSUME code = 200
      PROVE  TextArrives'
  <2>1. TextArrives
    BY <1>1, <1>3 DEF DownloadInv
  <2>2. buffer \in Seq(Byte) /\ body \in Seq(Byte) /\ n \in 1 .. Len(body)
    BY <2>1, SizesAssumption, LenProperties DEF TextArrives, AppendCallback
  <2>3. buffer' = Joined(buffer, Piece(body, n)) /\ body' = Rest(body, n)
    BY DEF AppendCallback, Joined, Piece
  <2>4. /\ buffer' \in Seq(Byte) /\ body' \in Seq(Byte)
        /\ Joined(buffer', body') = Joined(buffer, body)
    BY <2>2, <2>3, PieceMoves
  <2> QED
    BY <1>1, <2>1, <2>4 DEF TextArrives, Joined
<1> QED
  BY <1>1, <1>2, <1>3 DEF DownloadInv

(* The server's answer: the whole object is still to be delivered.         *)
LEMMA AnswerGetDownload ==
  ASSUME IInv, DownloadInv, AnswerGet
  PROVE  DownloadInv'
<1>1. /\ UNCHANGED <<object, request, applied, result, buffer, filled>>
      /\ request.op \in {"get", "get_text"} /\ code = 0
  BY DEF AnswerGet, client
<1>2. InProgress' => InProgress
  BY <1>1 DEF InProgress, Idle, ZeroPage
<1>3. code' # 0 /\ (code' = 404 => object = NoObject)
  BY DEF AnswerGet
<1>4. code' = 200 => object # NoObject /\ object \in Seq(Byte) /\ body' = object
  BY DEF AnswerGet, DownloadInv
<1>5. ASSUME request.op = "get", code' = 200
      PROVE  PageArrives'
  <2>1. buffer \in Page /\ filled = 0
    BY <1>1, <1>5 DEF DownloadInv
  <2>2. Len(object) \in Nat
    BY <1>4, <1>5, LenProperties
  <2> QED
    BY <1>1, <1>4, <1>5, <2>1, <2>2, SizesAssumption DEF PageArrives
<1>6. ASSUME request.op = "get_text", code' = 200
      PROVE  TextArrives'
  <2>1. buffer = <<>>
    BY <1>1, <1>6 DEF DownloadInv
  <2>2. <<>> \o object = object
    BY <1>4, <1>6, ConcatEmptySeq
  <2> QED
    BY <1>1, <1>4, <1>6, <2>1, <2>2 DEF TextArrives
<1> QED
  BY <1>1, <1>2, <1>3, <1>5, <1>6 DEF DownloadInv

(* An upload that is applied leaves an object of bytes.                    *)
LEMMA AnswerPutDownload ==
  ASSUME IInv, DownloadInv, AnswerPut
  PROVE  DownloadInv'
<1>1. UNCHANGED <<request, result>> /\ request.op = "put" /\ received \in Seq(Byte)
  BY DEF AnswerPut, client, IInv, TransferTypeOK
<1>2. InProgress' => InProgress
  BY <1>1 DEF InProgress, Idle, ZeroPage
<1>3. object' \in Seq(Byte) \cup {NoObject}
  BY <1>1 DEF AnswerPut, DownloadInv
<1>4. code' = 200 => applied'
  BY DEF AnswerPut
<1> QED
  BY <1>1, <1>2, <1>3, <1>4 DEF DownloadInv

(* A step that touches none of what the invariant is about.                *)
LEMMA SameDownload ==
  ASSUME DownloadInv,
         UNCHANGED <<object, request, applied, result, buffer, filled, body, code>>
  PROVE  DownloadInv'
<1>1. InProgress' => InProgress
  BY DEF InProgress, Idle, ZeroPage
<1>2. PageArrives => PageArrives'
  BY DEF PageArrives, Page
<1>3. TextArrives => TextArrives'
  BY DEF TextArrives
<1>4. buffer \in Page => buffer' \in Page
  BY DEF Page
<1> QED
  BY <1>1, <1>2, <1>3, <1>4 DEF DownloadInv

(* Each step keeps the invariant, ...                                      *)
LEMMA NextDownload ==
  ASSUME IInv, DownloadInv, Next
  PROVE  DownloadInv'
<1>1. CASE Tick
  BY <1>1, SameDownload DEF Tick, transfer
<1>2. CASE StartGet
  <2>1. buffer' \in Page
    BY <1>2 DEF StartGet
  <2> QED
    BY <1>2, <2>1, SendDownload DEF StartGet
<1>3. ASSUME NEW content \in Bodies(Byte), StartPut(content)
      PROVE  DownloadInv'
  BY <1>3, SendDownload DEF StartPut
<1>4. CASE Open
  <2>1. CASE path = ".meta"
    BY <1>4, <2>1, SendDownload DEF Open
  <2>2. CASE path # ".meta"
    BY <1>4, <2>2, SameDownload DEF Open, transfer
  <2> QED
    BY <2>1, <2>2
<1>5. ASSUME NEW n \in 1 .. MaxBody, ReadCallback(n)
      PROVE  DownloadInv'
  BY <1>5, SameDownload DEF ReadCallback
<1>6. ASSUME NEW n \in 1 .. MaxBody, WriteCallback(n)
      PROVE  DownloadInv'
  BY <1>6, WriteCallbackDownload
<1>7. ASSUME NEW n \in 1 .. MaxBody, AppendCallback(n)
      PROVE  DownloadInv'
  BY <1>7, AppendCallbackDownload
<1>8. CASE AnswerGet
  BY <1>8, AnswerGetDownload
<1>9. CASE AnswerPut
  BY <1>9, AnswerPutDownload
<1>10. CASE WriteCallbackThrows \/ ConnectionLost
  BY <1>10, EndDownload DEF WriteCallbackThrows, ConnectionLost
<1>11. CASE ReturnPage \/ ReturnZeroPage \/ ReturnText \/ ReturnAbsent \/ ReturnPut
  BY <1>11, EndDownload
  DEF ReturnPage, ReturnZeroPage, ReturnText, ReturnAbsent, ReturnPut
<1>12. CASE ThrowForStatus
  BY <1>12, EndDownload DEF ThrowForStatus
<1> QED
  BY <1>1, <1>2, <1>3, <1>4, <1>5, <1>6, <1>7, <1>8, <1>9, <1>10, <1>11, <1>12 DEF Next

(* ... so it holds throughout.                                             *)
LEMMA DownloadInvariance == Spec => [](IInv /\ DownloadInv)
<1>1. DownloadInv /\ UNCHANGED vars => DownloadInv'
  <2> SUFFICES ASSUME DownloadInv, UNCHANGED vars PROVE DownloadInv'
    OBVIOUS
  <2> QED
    BY SameDownload DEF vars, transfer
<1>2. IInv /\ DownloadInv /\ [Next]_vars => DownloadInv'
  BY <1>1, NextDownload
<1> QED
  BY <1>2, Invariance, InitDownload, PTL DEF Spec

-----------------------------------------------------------------------------
(* The refinement.                                                         *)

(* The bodies a request may have include the page of zeros.                *)
LEMMA ZeroPageIsBody == ZeroPage \in Bodies(Byte)
<1>1. PageSize \in 0 .. MaxBody /\ ZeroPage \in [1 .. PageSize -> Byte]
  BY SizesAssumption, BytesAssumption DEF ZeroPage
<1> QED
  BY <1>1 DEF Bodies

(* Nothing of a request in progress is seen but what it sends and whether  *)
(* the object was replaced.                                                *)
LEMMA InProgressStutters ==
  ASSUME DownloadInv, InProgress, UNCHANGED <<object, request, applied, result>>
  PROVE  UNCHANGED Atomic!vars
<1>1. result = "none"
  BY DEF DownloadInv
<1> QED
  BY <1>1 DEF Atomic!vars

(* Time passes, and a store is opened, unseen.                             *)
LEMMA OutsideStutters ==
  ASSUME UNCHANGED <<object, request, applied, result, buffer>>
  PROVE  UNCHANGED Atomic!vars
BY DEF Atomic!vars

(* A request is sent.                                                      *)
LEMMA SendIsStart ==
  ASSUME ~InProgress, NEW op \in {"get", "get_text", "put"}, NEW content \in Bodies(Byte),
         Send(op, content), UNCHANGED object
  PROVE  Atomic!Start
BY DEF Atomic!Start, Atomic!Idle, Atomic!Nothing, Send, InProgress, Idle

(* The server's answer to an upload may have replaced the object.          *)
LEMMA AnswerPutIsApply ==
  ASSUME IInv, DownloadInv, AnswerPut
  PROVE  Atomic!Apply \/ UNCHANGED Atomic!vars
<1>1. InProgress /\ result = "none" /\ UNCHANGED <<request, result>>
  BY IdleRequest DEF AnswerPut, DownloadInv
<1>2. CASE UNCHANGED <<object, applied>>
  BY <1>1, <1>2, InProgressStutters
<1>3. CASE object' = received /\ applied' = TRUE
  <2>1. received = request.content
    BY CompleteUpload DEF AnswerPut
  <2> QED
    BY <1>1, <1>3, <2>1 DEF Atomic!Apply, AnswerPut
<1> QED
  BY <1>2, <1>3 DEF AnswerPut

(* A lost connection and an error status are exceptions.                   *)
LEMMA EndIsThrows ==
  ASSUME InProgress, NEW how \in {"lost", "throws"}, End(how)
  PROVE  Atomic!Throws
BY DEF Atomic!Throws, Atomic!End, Atomic!Idle, End, InProgress, Idle

(* A page delivered whole is the object.                                   *)
LEMMA ReturnPageIsDelivered ==
  ASSUME IInv, DownloadInv, ReturnPage
  PROVE  Atomic!DeliveredPage \/ Atomic!Throws
<1>1. InProgress /\ body = <<>> /\ request.op = "get" /\ code = 200 /\ PageArrives /\ ~applied
  BY DEF ReturnPage, Complete, Answered, DownloadInv
<1>2. CASE filled = PageSize
  <2>1. Len(object) = PageSize /\ \A i \in 1 .. PageSize : buffer[i] = object[i]
    BY <1>1, <1>2, SizesAssumption DEF PageArrives
  <2>2. buffer \in Seq(Byte) /\ Len(buffer) = PageSize
    BY <1>1, SizesAssumption DEF PageArrives, Page
  <2>3. buffer = object
    BY <1>1, <2>1, <2>2, SeqEqual DEF PageArrives
  <2>4. object \in Page /\ object # NoObject
    BY <1>1, <2>3 DEF PageArrives
  <2>5. End("ok") /\ UNCHANGED buffer
    BY <1>2 DEF ReturnPage
  <2> QED
    BY <1>1, <2>3, <2>4, <2>5 DEF Atomic!DeliveredPage, Atomic!End, Atomic!Idle, End, Idle
<1>3. CASE filled # PageSize
  BY <1>1, <1>3, EndIsThrows DEF ReturnPage
<1> QED
  BY <1>2, <1>3

(* An absent page is delivered as zeros.                                   *)
LEMMA ReturnZeroPageIsDelivered ==
  ASSUME DownloadInv, ReturnZeroPage
  PROVE  Atomic!DeliveredPage
BY DEF DownloadInv, ReturnZeroPage, Complete, Answered,
       Atomic!DeliveredPage, Atomic!End, Atomic!Idle, End, Idle

(* A text delivered whole is the object.                                   *)
LEMMA ReturnTextIsDelivered ==
  ASSUME DownloadInv, ReturnText
  PROVE  Atomic!DeliveredText
<1>1. body = <<>> /\ request.op = "get_text" /\ code = 200 /\ TextArrives /\ ~applied
  BY DEF ReturnText, Complete, DownloadInv
<1>2. buffer = object
  BY <1>1, ConcatEmptySeq DEF TextArrives
<1> QED
  BY <1>1, <1>2
  DEF ReturnText, TextArrives, Atomic!DeliveredText, Atomic!End, Atomic!Idle, End, Idle

(* Only an absent text is reported absent.                                 *)
LEMMA ReturnAbsentIsAbsent ==
  ASSUME DownloadInv, ReturnAbsent
  PROVE  Atomic!Absent
BY DEF DownloadInv, ReturnAbsent, Complete, Answered,
       Atomic!Absent, Atomic!End, Atomic!Idle, End, Idle

(* A PUT that returns has replaced the object.                             *)
LEMMA ReturnPutIsReplaced ==
  ASSUME DownloadInv, ReturnPut
  PROVE  Atomic!Replaced
BY DEF DownloadInv, ReturnPut, Complete, Answered,
       Atomic!Replaced, Atomic!End, Atomic!Idle, End, Idle

(* Each step is one of AtomicObject or is not seen there.                  *)
LEMMA NextIsAtomic ==
  ASSUME IInv, DownloadInv, Next
  PROVE  Atomic!Next \/ UNCHANGED Atomic!vars
<1> USE DEF Atomic!Next
<1>1. CASE Tick
  BY <1>1, OutsideStutters DEF Tick
<1>2. CASE StartGet
  BY <1>2, SendIsStart, ZeroPageIsBody DEF StartGet
<1>3. ASSUME NEW content \in Bodies(Byte), StartPut(content)
      PROVE  Atomic!Start
  BY <1>3, SendIsStart DEF StartPut
<1>4. CASE Open
  <2>1. CASE path = ".meta"
    BY <1>4, <2>1, SendIsStart, ZeroPageIsBody DEF Open
  <2>2. CASE path # ".meta"
    BY <1>4, <2>2, OutsideStutters DEF Open
  <2> QED
    BY <2>1, <2>2
<1>5. ASSUME NEW n \in 1 .. MaxBody,
             ReadCallback(n) \/ WriteCallback(n) \/ AppendCallback(n)
      PROVE  UNCHANGED Atomic!vars
  <2>1. InProgress /\ UNCHANGED <<object, request, applied, result>>
    BY <1>5, IdleRequest DEF ReadCallback, WriteCallback, AppendCallback, Answered
  <2> QED
    BY <2>1, InProgressStutters
<1>6. CASE AnswerGet
  <2>1. InProgress /\ UNCHANGED <<object, request, applied, result>>
    BY <1>6, IdleRequest DEF AnswerGet
  <2> QED
    BY <2>1, InProgressStutters
<1>7. CASE AnswerPut
  BY <1>7, AnswerPutIsApply
<1>8. CASE WriteCallbackThrows \/ ConnectionLost
  BY <1>8, EndIsThrows DEF WriteCallbackThrows, ConnectionLost, Answered
<1>9. CASE ReturnPage
  BY <1>9, ReturnPageIsDelivered
<1>10. CASE ReturnZeroPage
  BY <1>10, ReturnZeroPageIsDelivered
<1>11. CASE ReturnText
  BY <1>11, ReturnTextIsDelivered
<1>12. CASE ReturnAbsent
  BY <1>12, ReturnAbsentIsAbsent
<1>13. CASE ReturnPut
  BY <1>13, ReturnPutIsReplaced
<1>14. CASE ThrowForStatus
  BY <1>14, EndIsThrows DEF ThrowForStatus, Complete, Answered
<1> QED
  BY <1>1, <1>2, <1>3, <1>4, <1>5, <1>6, <1>7, <1>8, <1>9, <1>10, <1>11, <1>12, <1>13, <1>14
  DEF Next

(* A request in pieces, with any chunks, losses of connection, refusals and*)
(* error bodies, is the atomic request that s3_kv_store takes it for: a    *)
(* page delivered whole is the object's, without bytes of the page that    *)
(* had the buffer before, and only an absent .meta makes a file new.       *)
THEOREM Atomicity == Spec => ImplementsAtomicObject
<1>1. Init => Atomic!Init
  BY DEF Init, Atomic!Init, Atomic!Idle, Atomic!Nothing, Idle
<1>2. IInv /\ DownloadInv /\ [Next]_vars => [Atomic!Next]_(Atomic!vars)
  <2>1. ASSUME UNCHANGED vars
        PROVE  UNCHANGED Atomic!vars
    BY <2>1, OutsideStutters DEF vars
  <2> QED
    BY <2>1, NextIsAtomic
<1> QED
  BY <1>1, <1>2, DownloadInvariance, PTL DEF Spec, ImplementsAtomicObject, Atomic!Spec
=============================================================================
