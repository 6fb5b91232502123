------------------------------ MODULE RecordStore ------------------------------
(***************************************************************************)
(* What the durable stores promise their callers, with no file, lock or    *)
(* disk in sight: a set of records, one per key at most, in which a record *)
(* is only ever followed by its next revision; and an epoch, out of which  *)
(* one client at a time holds a token that nobody held before.  Every      *)
(* request takes effect at one instant, or is refused and has none.  A     *)
(* client may die, and then is not told what became of its request.        *)
(***************************************************************************)
EXTENDS Naturals

CONSTANTS
    Client,
    Requests   \* what clients ask

VARIABLES
    contents,  \* the records: [key, revision, kind]
    epoch,     \* the largest token so far
    request,   \* [Client -> Requests or NoRequest]
    answer,    \* [Client -> Answer]
    token      \* [Client -> Nat], the token that a client holds, 0 for none

vars == <<contents, epoch, request, answer, token>>

NoRequest == [op |-> "none"]
Answer(status, records) == [status |-> status, records |-> records]
NoAnswer == Answer("none", {})

Waits(c) == request[c] # NoRequest /\ answer[c] = NoAnswer

Of(k) == {r \in contents : r.key = k}

\* r is the first record of its key, or the one after the record that is there.
\* The kind of a record is for ever.
Follows(r) ==
    IF r.revision = 1
    THEN Of(r.key) = {}
    ELSE \E old \in Of(r.key) :
            r.revision = old.revision + 1 /\ r.kind = old.kind

Init ==
    /\ contents = {}
    /\ epoch = 0
    /\ request = [c \in Client |-> NoRequest]
    /\ answer = [c \in Client |-> NoAnswer]
    /\ token = [c \in Client |-> 0]

Ask(c, q) ==
    /\ request[c] = NoRequest
    /\ request' = [request EXCEPT ![c] = q]
    /\ UNCHANGED <<contents, epoch, answer, token>>

Commit(c) ==
    /\ Waits(c) /\ request[c].op = "commit"
    /\ LET r == request[c].record IN
          /\ Follows(r)
          /\ contents' = (contents \ Of(r.key)) \cup {r}
    /\ answer' = [answer EXCEPT ![c] = Answer("committed", {})]
    /\ UNCHANGED <<epoch, request, token>>

\* The record had been committed before, by this client or another.
AlreadyCommitted(c) ==
    /\ Waits(c) /\ request[c].op = "commit"
    /\ request[c].record \in contents
    /\ answer' = [answer EXCEPT ![c] = Answer("committed", {})]
    /\ UNCHANGED <<contents, epoch, request, token>>

Acquire(c) ==
    /\ Waits(c) /\ request[c].op = "acquire"
    /\ \A d \in Client : token[d] = 0
    /\ epoch' = epoch + 1
    /\ token' = [token EXCEPT ![c] = epoch + 1]
    /\ answer' = [answer EXCEPT ![c] = Answer("committed", {})]
    /\ UNCHANGED <<contents, request>>

Load(c) ==
    /\ Waits(c) /\ request[c].op = "load"
    /\ answer' = [answer EXCEPT ![c] = Answer("read", Of(request[c].key))]
    /\ UNCHANGED <<contents, epoch, request, token>>

Scan(c) ==
    /\ Waits(c) /\ request[c].op = "scan"
    /\ answer' = [answer EXCEPT ![c] =
          Answer("read", {r \in contents : r.key \in request[c].keys})]
    /\ UNCHANGED <<contents, epoch, request, token>>

\* Nothing is refused because of what somebody who died has left behind.
Refuse(c) ==
    /\ Waits(c)
    /\ \E status \in {"conflict", "collision", "io_error"} :
          answer' = [answer EXCEPT ![c] = Answer(status, {})]
    /\ UNCHANGED <<contents, epoch, request, token>>

Return(c) ==
    /\ answer[c] # NoAnswer
    /\ request' = [request EXCEPT ![c] = NoRequest]
    /\ answer' = [answer EXCEPT ![c] = NoAnswer]
    /\ UNCHANGED <<contents, epoch, token>>

Release(c) ==
    /\ token' = [token EXCEPT ![c] = 0]
    /\ UNCHANGED <<contents, epoch, request, answer>>

Die(C) ==
    /\ request' = [c \in Client |-> IF c \in C THEN NoRequest ELSE request[c]]
    /\ answer' = [c \in Client |-> IF c \in C THEN NoAnswer ELSE answer[c]]
    /\ token' = [c \in Client |-> IF c \in C THEN 0 ELSE token[c]]
    /\ UNCHANGED <<contents, epoch>>

Next ==
    \/ \E C \in SUBSET Client : Die(C)
    \/ \E c \in Client :
          \/ \E q \in Requests : Ask(c, q)
          \/ Commit(c) \/ AlreadyCommitted(c) \/ Acquire(c)
          \/ Load(c) \/ Scan(c) \/ Refuse(c)
          \/ Return(c) \/ Release(c)

Spec == Init /\ [][Next]_vars
================================================================================
