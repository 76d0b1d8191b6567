----------------------------- MODULE SignedUrl -----------------------------
(***************************************************************************)
(* How the signature gets from the SDK to the caller of sign(): in the URL *)
(* the SDK opens the shim's request with, or in the request's headers.  Of *)
(* a URL this keeps the values of its two parameters.                      *)
(***************************************************************************)
EXTENDS Naturals, Sequences, FiniteSetsExt

CONSTANT Signatures \* what the SDK computes

VARIABLES
    _url,     \* of the request that sign() makes
    _headers, \* what was set of them
    requested \* history: what the SDK did with the request

requestVars == <<_url, _headers, requested>>

SignatureParams == {"X-Bogus", "X-Gnarly"}

Missing == ""

toLowerCase(name) ==
    CASE name = "X-Bogus" -> "x-bogus" [] name = "X-Gnarly" -> "x-gnarly" [] OTHER -> name

Unsigned == [p \in SignatureParams |-> Missing]

\* sign() opens its request with a URL that has no signature.
RequestInit == _url = Unsigned /\ _headers = [n \in {} |-> Missing] /\ requested = <<>>

\* What the SDK does with the request; open() again keeps the headers.
open(url) ==
    /\ _url' = url
    /\ requested' = Append(requested, [op |-> "open", url |-> url])
    /\ UNCHANGED _headers

WithHeader(name, value) ==
    [n \in DOMAIN _headers \cup {name} |-> IF n = name THEN value ELSE _headers[n]]

setRequestHeader(name, value) ==
    /\ _headers' = WithHeader(toLowerCase(name), value)
    /\ requested' = Append(requested, [op |-> "setRequestHeader", name |-> name])
    /\ UNCHANGED _url

\* It may sign in the URL, in the headers, in half of either.
RequestStep ==
    \/ \E signature \in [SignatureParams -> Signatures \cup {Missing}] : open(signature)
    \/ \E name \in SignatureParams, value \in Signatures : setRequestHeader(name, value)

RequestSpec == RequestInit /\ [][RequestStep]_requestVars

\* sign() adds what it finds in the headers to a URL without X-Bogus.
Header(name) == IF name \in DOMAIN _headers THEN _headers[name] ELSE Missing

SignedUrl ==
    IF Header("X-Bogus") # Missing /\ _url["X-Bogus"] = Missing
    THEN [p \in SignatureParams |-> IF Header(p) # Missing THEN Header(p) ELSE _url[p]]
    ELSE _url

\* What the SDK gave, in the URL or in a header.
Given(name) ==
    \/ _url[name] # Missing
    \/ \E i \in 1..Len(requested) :
           requested[i].op = "setRequestHeader" /\ requested[i].name = name

\* The returned URL carries both parameters once the SDK has given both.  It does not
\* if one was given in a header: those have their names in lower case by then.
BothParamsCarried ==
    (\A p \in SignatureParams : Given(p)) => \A p \in SignatureParams : SignedUrl[p] # Missing

\* What sign() returns is the URL that the SDK opened last, as it is.
LastOpenedIsReturned ==
    LET opens == {i \in 1..Len(requested) : requested[i].op = "open"}
    IN  SignedUrl = IF opens = {} THEN Unsigned ELSE requested[Max(opens)].url
=============================================================================
