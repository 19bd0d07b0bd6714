---------------------------- MODULE SessionItems ----------------------------
(***************************************************************************)
(* A session of the managed Session Store, as the vendored client          *)
(* (session_store_client.py) uses it: a log of opaque items, each stamped  *)
(* by the service, that is appended to in one call, cleared in one call    *)
(* and listed oldest first, a page at a time.                              *)
(***************************************************************************)
EXTENDS Naturals, Sequences

CONSTANT PageSize   \* bound: items the service returns in one page

ASSUME PageAssumption == PageSize \in Nat \ {0}

NoLog == [exists |-> FALSE, clock |-> 0, log |-> <<>>]

Opened(s)  == [s EXCEPT !.exists = TRUE]
Cleared(s) == [s EXCEPT !.log = <<>>]

(* All the items of one call enter the log together. *)
Appended(s, data) ==
  [s EXCEPT !.clock = s.clock + Len(data),
            !.log   = s.log \o [k \in 1..Len(data) |->
                                  [time |-> s.clock + k, data |-> data[k]]]]

(* The log is in the order of its stamps: what is later than one is its end. *)
Later(s, after) ==
  LET first == CHOOSE n \in 1..(Len(s.log) + 1) :
                 \A k \in DOMAIN s.log : s.log[k].time > after <=> k >= n
  IN  SubSeq(s.log, first, Len(s.log))

(* One GET: the items that follow the page token, and whether it comes     *)
(* with the token of a further page.                                       *)
LastPage(s, after) == Len(Later(s, after)) <= PageSize
Page(s, after) ==
  IF LastPage(s, after) THEN Later(s, after) ELSE SubSeq(Later(s, after), 1, PageSize)

(* list_items as a generator: what it has yielded, and its page token.     *)
Listing == [got |-> <<>>, token |-> 0]
NextPage(l, s) ==
  LET page == Page(s, l.token)
  IN  [got   |-> l.got \o [k \in DOMAIN page |-> page[k].data],
       token |-> IF page = <<>> THEN l.token ELSE page[Len(page)].time]
=============================================================================
