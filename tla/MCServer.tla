------------------------------- MODULE MCServer -------------------------------
(* One request at a time, with every token in every form around every        *)
(* boundary of exp, to processes started with one environment of each kind.  *)
EXTENDS Admission

CONSTANTS q1

OneRequest == {q1}

\* A board id, and a name browsers encode.
MCChar     == {"u", ":", ".", "_", " ", "%", "2", "0"}
MCSafeChar == {"u", ".", "_", "2", "0"}
MCUrlPlain == {"u", ":", ".", "_"}
MCEncoded  == [c \in {" "} |-> <<"%", "2", "0">>]
MCRoom     == {<<"u", ":">>, <<"u", " ">>}

Unset     == [kind |-> "unset", n |-> 0]
Digits(i) == [kind |-> "digits", n |-> i]
NoStorage == [scheme |-> "", host |-> "none"]
Public    == [scheme |-> "https", host |-> "public"]
PlainHost == [scheme |-> "bare", host |-> "private"]
Refused   == [scheme |-> "http", host |-> "public"]

\* Without a secret: as it comes, told to listen on all interfaces, opted out
\* of the guard, without a port.  With one: every kind of text for the bound.
MCSetting ==
  {[secret |-> FALSE, insecure |-> i, addr |-> a, endpoint |-> NoStorage,
    bucket |-> FALSE, ttl |-> Unset] :
      i \in BOOLEAN, a \in {"unset", "all", "portless"}}
  \cup
  {[secret |-> TRUE, insecure |-> FALSE, addr |-> "all", endpoint |-> Public,
    bucket |-> TRUE, ttl |-> t] :
      t \in {Unset, Digits(0), Digits(2), Digits(0 - 1),
             [kind |-> "empty", n |-> 0], [kind |-> "fancy", n |-> 2]}}
  \cup
  {[secret |-> TRUE, insecure |-> FALSE, addr |-> "loopback", endpoint |-> h,
    bucket |-> b, ttl |-> Unset] : h \in {PlainHost, Refused}, b \in BOOLEAN}
=============================================================================
