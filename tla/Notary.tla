------------------------------- MODULE Notary -------------------------------
(***************************************************************************)
(* The S3 client: the signed message that get_object and set_object make   *)
(* of a request, and how S3 verifies it.  Pure definitions, no state.      *)
(*                                                                         *)
(* A hash is a term, equal to another only when all that went into both is *)
(* equal.  Texts that the code concatenates are records or sequences of    *)
(* their parts; an instant is a number and its date the day it falls on.   *)
(***************************************************************************)
EXTENDS Integers, Sequences

CONSTANTS
  DayLength,   \* instants in a day
  Window,      \* how many instants after it was signed S3 accepts a request
  Region, AccessKey, SecretKey, Host, Bucket   \* parameters of the driver

ASSUME TimeAssumption == DayLength \in Nat \ {0} /\ Window \in Nat

Sha256(data) == [digest_of |-> data]
Hmac(key, data) == [key |-> key, data |-> data]

(* m_now.substr(0, 8)                                                      *)
Date(now) == now \div DayLength

(* calculate_signing_key                                                   *)
SigningKey(now, region, secret_key) ==
  LET date_key   == Hmac(<<"AWS4", secret_key>>, Date(now))
      region_key == Hmac(date_key, region)
  IN  Hmac(Hmac(region_key, "s3"), "aws4_request")

(* A notary keeps the time it was made at and the key for that day.        *)
NotaryAt(now) ==
  [now |-> now, signing_key |-> SigningKey(now, Region, SecretKey)]

HTTPVerb ==
  [GET |-> 0, HEAD |-> 1, POST |-> 2, PUT |-> 3, DELETE |-> 4, CONNECT |-> 5,
   OPTIONS |-> 6, TRACE |-> 7, PATCH |-> 8]

HTTP_VERB_NAMES ==
  <<"GET", "HEAD", "POST", "PUT", "DELETE", "CONNECT", "OPTIONS", "TRACE", "PATCH">>

CanonicalVerb(verb) == HTTP_VERB_NAMES[HTTPVerb[verb] + 1]

Names(headers) == [i \in DOMAIN headers |-> headers[i].name]

CanonicalRequest(verb, uri, query, headers, payload_hash) ==
  [verb |-> verb, uri |-> uri, query |-> query, headers |-> headers,
   signed_headers |-> Names(headers), payload_hash |-> payload_hash]

Scope(date) == <<date, Region, "s3", "aws4_request">>

StringToSign(now, canonical_request) ==
  [algorithm |-> "AWS4-HMAC-SHA256", time |-> now, scope |-> Scope(Date(now)),
   request_hash |-> Sha256(canonical_request)]

(* notary::authorization_header                                            *)
AuthorizationHeader(notary, verb, uri, query, headers, payload_hash) ==
  LET request == CanonicalRequest(CanonicalVerb(verb), uri, query, headers, payload_hash)
  IN  [access_key |-> AccessKey, scope |-> Scope(Date(notary.now)),
       signed_headers |-> Names(headers),
       signature |-> Hmac(notary.signing_key, StringToSign(notary.now, request))]

(* inner_get and set_object: the headers that are signed, ...              *)
HeadersToSign(signing_time, payload_hash) ==
  << [name |-> "host", value |-> Host],
     [name |-> "x-amz-content-sha256", value |-> payload_hash],
     [name |-> "x-amz-date", value |-> signing_time] >>

(* ... and set_headers: what curl sends, Authorization last.               *)
SentHeaders(headers, auth) == Append(headers, [name |-> "Authorization", value |-> auth])

(* The request as it leaves the client.  verb is what the notary signs,    *)
(* method what curl::session makes of the call.                            *)
Message(notary, signing_time, verb, method, path, content) ==
  LET payload_hash == Sha256(content)
      uri     == <<Bucket, path>>
      headers == HeadersToSign(signing_time, payload_hash)
      auth    == AuthorizationHeader(notary, verb, uri, <<>>, headers, payload_hash)
  IN  [method |-> method, uri |-> uri, query |-> <<>>,
       headers |-> SentHeaders(headers, auth)]

-----------------------------------------------------------------------------
(* S3                                                                      *)

HeaderOf(m, name) ==
  m.headers[CHOOSE i \in DOMAIN m.headers : m.headers[i].name = name].value

(* S3 takes the headers to be signed in the order of their names, and      *)
(* makes the signature anew from the message, for the date it claims.      *)
SortedNames == <<"host", "x-amz-content-sha256", "x-amz-date">>

DateOf(m) == HeaderOf(m, "x-amz-date") \div DayLength
ScopeOf(m) == <<DateOf(m), Region, "s3", "aws4_request">>

SignatureByS3(m) ==
  LET key == Hmac(Hmac(Hmac(Hmac(<<"AWS4", SecretKey>>, DateOf(m)), Region), "s3"),
                  "aws4_request")
      request == [verb |-> m.method, uri |-> m.uri, query |-> m.query,
                  headers |-> [i \in DOMAIN SortedNames |->
                                 [name |-> SortedNames[i],
                                  value |-> HeaderOf(m, SortedNames[i])]],
                  signed_headers |-> SortedNames,
                  payload_hash |-> HeaderOf(m, "x-amz-content-sha256")]
  IN  Hmac(key, [algorithm |-> "AWS4-HMAC-SHA256", time |-> HeaderOf(m, "x-amz-date"),
                 scope |-> ScopeOf(m), request_hash |-> Sha256(request)])

(* m, arriving with the given content, is what the holder of the keys      *)
(* signed.                                                                 *)
Verifies(m, content) ==
  LET auth == HeaderOf(m, "Authorization")
  IN  /\ auth.access_key = AccessKey
      /\ auth.signed_headers = SortedNames
      /\ auth.scope = ScopeOf(m)
      /\ HeaderOf(m, "x-amz-content-sha256") = Sha256(content)
      /\ auth.signature = SignatureByS3(m)

InTime(m, clock) == clock <= HeaderOf(m, "x-amz-date") + Window
=============================================================================
