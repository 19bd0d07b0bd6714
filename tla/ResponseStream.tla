--------------------------- MODULE ResponseStream ---------------------------
(***************************************************************************)
(* A client that follows a background response through                     *)
(* GET /responses/{id}?stream=true, composed with the server.  The stream  *)
(* polls: it reads the status, may resume a silent run (LongRunning!Claim, *)
(* which any poll may take), and reads the messages after its cursor, each *)
(* a transaction of its own.  A client that lost its stream comes back     *)
(* with the number of the last message it saw.                             *)
(***************************************************************************)
EXTENDS LongRunning, Sequences

VARIABLE stream

svars == <<vars, stream>>

(* off    no stream is open; `last` and `got` are the client's              *)
(* poll   about to read the status                                          *)
(* read   has read it as `seen`; about to read the messages                 *)
(* send   has read `batch`; about to deliver the first of it                *)
(* ended  the server closed the stream on a terminal status                 *)
Stream == [pc    : {"off", "poll", "read", "send", "ended"},
           seen  : {"none", "in_progress", "completed", "failed"},
           batch : SUBSET Nat,      \* numbers of the messages still to deliver
           last  : Nat,             \* last_seq
           got   : Seq(Nat)]        \* history: every delivery, in its order

StreamInit ==
  /\ Init
  /\ stream = [pc |-> "off", seen |-> "none", batch |-> {}, last |-> 0, got |-> <<>>]

(* starting_after = 0 means everything; else the number last seen.          *)
Open ==
  /\ stream.pc = "off" /\ resp.status # "none"
  /\ stream' = [stream EXCEPT !.pc = "poll"]
  /\ UNCHANGED vars

PollStatus ==
  /\ stream.pc = "poll"
  /\ stream' = [stream EXCEPT !.pc = "read", !.seen = resp.status]
  /\ UNCHANGED vars

After_Exclusive == {n \in DOMAIN msgs : n > stream.last}

(* get_messages(after_sequence = last - 1 if last == 0 else last)           *)
After == {n \in DOMAIN msgs : n > (IF stream.last = 0 THEN -1 ELSE stream.last)}

(* With messages left the loop goes on; after the last the stream ends on   *)
(* the status that was read before them, or polls again.                    *)
GoOn(s, left) ==
  CASE left # {} -> [s EXCEPT !.pc = "send", !.batch = left]
    [] left = {} /\ s.seen \in Terminal -> [s EXCEPT !.pc = "ended", !.batch = {}]
    [] OTHER -> [s EXCEPT !.pc = "poll", !.seen = "none", !.batch = {}]

PollMessages ==
  /\ stream.pc = "read"
  /\ stream' = GoOn(stream, After)
  /\ UNCHANGED vars

(* One message is yielded, then the cursor moves.                           *)
Deliver ==
  /\ stream.pc = "send"
  /\ \E m \in stream.batch :
       /\ \A n \in stream.batch : m <= n
       /\ stream' = GoOn([stream EXCEPT !.last = m, !.got = Append(stream.got, m)],
                         stream.batch \ {m})
  /\ UNCHANGED vars

(* The deadline of the stream, a disconnect, perhaps between two messages   *)
(* of one poll, the death of the pod that serves it, or an exception of a   *)
(* resume it tried.                                                         *)
Drop ==
  /\ stream.pc \in {"poll", "read", "send"}
  /\ stream' = [stream EXCEPT !.pc = "off", !.seen = "none", !.batch = {}]
  /\ UNCHANGED vars

Poll_MessagesFirst ==
  /\ \/ /\ stream.pc = "poll"
        /\ stream' = [stream EXCEPT !.pc = "read", !.batch = After]
     \/ stream.pc = "read" /\ stream' = GoOn([stream EXCEPT !.seen = resp.status], stream.batch)
  /\ UNCHANGED vars

Poll == PollStatus \/ PollMessages

StreamNext ==
  \/ Next /\ UNCHANGED stream
  \/ Open \/ Poll \/ Deliver \/ Drop

StreamSpec == StreamInit /\ [][StreamNext]_svars

StreamTypeOK == TypeOK /\ stream \in Stream

(* Whatever attempts and writers the log has, and however often the client  *)
(* reconnects with its cursor, it is given the messages in their order from *)
(* message 0 on, none left out and none repeated, but for message 0 itself: *)
(* while that is all the client has, its cursor is 0, the cursor of a       *)
(* client that has nothing, and every further poll delivers it again.       *)
DeliversInOrder ==
  \A k \in DOMAIN stream.got :
    \/ stream.got[k] = 0 /\ \A j \in 1..(k-1) : stream.got[j] = 0
    \/ k > 1 /\ stream.got[k] = stream.got[k-1] + 1

(* A stream that ends with [DONE] has delivered every message of the        *)
(* attempt that completed the response, and all that came before them.      *)
DoneIsComplete ==
  stream.pc = "ended" /\ stream.seen = "completed" =>
    \A n \in MessagesOf(resp.attempt, "item"), k \in DOMAIN msgs :
       k <= n => \E i \in DOMAIN stream.got : stream.got[i] = k

(* Nothing is lost or out of order on the way to a client, and nothing but  *)
(* message 0 is repeated.                                                   *)
StreamIsSound == DeliversInOrder /\ DoneIsComplete
=============================================================================
