----------------------------- MODULE PushPromise -----------------------------
(***************************************************************************)
(* Push promises of an HTTP/3 server (lsquic_push_promise.h,               *)
(* ietf_full_conn_ci_push_stream(), lsquic_stream_push_promise() and what  *)
(* cancels a promise).  A promise is shared by the stream it is announced  *)
(* on (sm_promises), by the stream that carries the response (sm_promise)  *)
(* and by the connection's hash; pp_refcnt says when it is freed.          *)
(***************************************************************************)
EXTENDS Integers, Sequences, FiniteSets, SequencesExt

CONSTANTS PpRequests,       \* request streams of the client
          PpLimits,         \* values a client sends in MAX_PUSH_ID
          MaxPromises,      \* bound: push IDs generated
          PpSize,           \* bytes of a PUSH_PROMISE payload
          PpWrites          \* how many of them a write may take

ASSUME PushPromiseAssumption ==
    /\ MaxPromises \in Nat /\ PpSize \in Nat \ {0}
    /\ PpWrites \subseteq 0..PpSize /\ PpLimits \subseteq Nat

VARIABLES pps,      \* the promises by push ID, freed ones included
          reqs,     \* the request streams
          pconn     \* the connection

ppvars == <<pps, reqs, pconn>>

Ids == DOMAIN pps
NoLimit == -1

\* A promise: its references, whether it is in the hash, whether the stream that
\* carries it exists (its sm_promise, and pp_pushed_stream), bytes to write.
Promise(refs) ==
    [refs |-> refs, hashed |-> TRUE, freed |-> FALSE, carried |-> FALSE, left |-> PpSize]
NewRequest ==
    [alive |-> TRUE, promises |-> <<>>, nopush |-> FALSE, pushing |-> FALSE,
     headers |-> FALSE, want |-> TRUE, saved |-> TRUE]

PPInit ==
    /\ pps = <<>>
    /\ reqs = [s \in PpRequests |-> NewRequest]
    /\ pconn = [max_push |-> NoLimit, error |-> FALSE, touched |-> FALSE, told |-> {},
                cut |-> {}]

\* lsquic_pp_put().  On a promise that was freed already it is an access to memory
\* that is not there (touched); nothing is said about what follows.
Put(p) ==
    [p EXCEPT !.refs = IF @ > 0 THEN @ - 1 ELSE 0,
              !.freed = @ \/ p.refs = 1,
              !.hashed = @ /\ p.refs # 1]
Touches(ids) == pconn.touched \/ \E i \in ids : pps[i].freed

-----------------------------------------------------------------------------
\* on_max_push_id()
OnMaxPushId(v) ==
    /\ ~pconn.error
    /\ pconn' = IF pconn.max_push = NoLimit \/ v > pconn.max_push
                THEN [pconn EXCEPT !.max_push = v]
                ELSE [pconn EXCEPT !.error = v < pconn.max_push]
    /\ UNCHANGED <<pps, reqs>>

\* ietf_full_conn_ci_is_push_enabled(), lsquic_stream_can_push()
CanPush(s) ==
    /\ ~pconn.error /\ reqs[s].alive
    /\ pconn.max_push # NoLimit /\ Len(pps) <= pconn.max_push
    /\ ~reqs[s].headers /\ ~reqs[s].nopush

(***************************************************************************)
(* ietf_full_conn_ci_push_stream().  Until the promise has its ID a        *)
(* failure leaves nothing behind.  After that the ID is used up: if the    *)
(* PUSH_PROMISE frame cannot be started the promise is freed and the       *)
(* request may push no more; if the synthetic request is refused, the      *)
(* promise stays with the request stream and CANCEL_PUSH is sent.          *)
(* Push ID n is element n + 1 of pps.                                      *)
(***************************************************************************)
Pushing(r, id, n) ==        \* lsquic_stream_push_promise() wrote n > 0 bytes
    [r EXCEPT !.promises = <<id>> \o r.promises,
              !.pushing = n < PpSize,
              !.nopush = r.nopush \/ n < PpSize,
              !.saved = IF n < PpSize THEN r.want ELSE r.saved,
              !.want = r.want \/ n < PpSize]
Announced(s, id, n) == [reqs EXCEPT ![s] = Pushing(reqs[s], id, n)]

Carried_bug(p) == [p EXCEPT !.carried = TRUE]
Carried(p) == [p EXCEPT !.refs = @ + 1, !.carried = TRUE]

PushStream(s, n, how) ==
    /\ CanPush(s) /\ Len(pps) < MaxPromises
    /\ CASE how = "not_inserted" ->
            /\ pps' = Append(pps, Put([Promise(1) EXCEPT !.hashed = FALSE]))
            /\ UNCHANGED <<reqs, pconn>>
         [] how # "not_inserted" /\ n = 0 ->
            /\ pps' = Append(pps, Put(Promise(1)))
            /\ reqs' = [reqs EXCEPT ![s].nopush = TRUE]
            /\ UNCHANGED pconn
         [] how = "uh_refused" /\ n > 0 ->
            /\ pps' = Append(pps, Put([Promise(2) EXCEPT !.left = PpSize - n]))
            /\ reqs' = Announced(s, Len(pps) + 1, n)
            /\ pconn' = [pconn EXCEPT !.told = @ \cup {Len(pps) + 1}]
         [] how = "ok" /\ n > 0 ->
            /\ pps' = Append(pps, Put(Carried([Promise(2) EXCEPT !.left = PpSize - n])))
            /\ reqs' = Announced(s, Len(pps) + 1, n)
            /\ UNCHANGED pconn

\* on_write_pp_wrapper(), dispatched while the first promise is being written
OnWritePP(s, n) ==
    /\ ~pconn.error /\ reqs[s].alive /\ reqs[s].want /\ reqs[s].pushing
    /\ LET id == Head(reqs[s].promises)
           left == pps[id].left IN
       /\ left > 0 /\ n <= left
       /\ pps' = [pps EXCEPT ![id].left = left - n]
       /\ reqs' = IF n = left
                  THEN [reqs EXCEPT ![s].pushing = FALSE, ![s].want = reqs[s].saved]
                  ELSE reqs
       /\ pconn' = [pconn EXCEPT !.touched = Touches({id})]

\* lsquic_stream_wantwrite() by the user, also while a promise is being written
WantWrite(s, b) ==
    /\ ~pconn.error /\ reqs[s].alive /\ ~reqs[s].headers
    /\ reqs' = [reqs EXCEPT ![s].want = b, ![s].saved = b]
    /\ UNCHANGED <<pps, pconn>>

\* send_headers_ietf(): not while a promise is being written
SendHeaders(s) ==
    /\ ~pconn.error /\ reqs[s].alive /\ ~reqs[s].headers /\ ~reqs[s].pushing
    /\ reqs' = [reqs EXCEPT ![s].headers = TRUE, ![s].nopush = TRUE]
    /\ UNCHANGED <<pps, pconn>>

\* lsquic_stream_destroy() of a request stream and of a stream that was pushed
DestroyRequest(s) ==
    /\ reqs[s].alive
    /\ LET mine == ToSet(reqs[s].promises) IN
       /\ pps' = [i \in Ids |-> IF i \in mine THEN Put(pps[i]) ELSE pps[i]]
       /\ pconn' = [pconn EXCEPT !.touched = Touches(mine)]
    /\ reqs' = [reqs EXCEPT ![s] = [reqs[s] EXCEPT !.alive = FALSE, !.promises = <<>>]]

DestroyPushed(i) ==
    /\ pps[i].carried
    /\ pps' = [pps EXCEPT ![i] = Put([pps[i] EXCEPT !.carried = FALSE])]
    /\ pconn' = [pconn EXCEPT !.touched = Touches({i})]
    /\ UNCHANGED reqs

-----------------------------------------------------------------------------
(***************************************************************************)
(* cancel_push_promise(): the promise leaves the hash, the stream that     *)
(* carries it is shut down (there may be none any more), CANCEL_PUSH is    *)
(* written and a reference is put, although no stream gave one up (cut).   *)
(***************************************************************************)
Hashed == {i \in Ids : pps[i].hashed}
CancelPushPromises(ids) ==
    /\ pps' = [i \in Ids |->
                IF i \in ids THEN Put([pps[i] EXCEPT !.hashed = FALSE]) ELSE pps[i]]
    /\ pconn' = [pconn EXCEPT !.told = @ \cup ids, !.cut = @ \cup ids,
                              !.touched = Touches(ids) \/ \E i \in ids : ~pps[i].carried]
    /\ UNCHANGED reqs

\* on_cancel_push_server(): an ID not generated yet is an error
OnCancelPush(push_id) ==
    /\ ~pconn.error
    /\ \/ push_id < Len(pps) /\ CancelPushPromises({push_id + 1} \cap Hashed)
       \/ /\ push_id >= Len(pps)
          /\ pconn' = [pconn EXCEPT !.error = TRUE]
          /\ UNCHANGED <<pps, reqs>>

\* on_goaway_server(): every promise above the client's limit
OnGoaway(max_push_id) ==
    /\ ~pconn.error
    /\ CancelPushPromises({i \in Hashed : i - 1 > max_push_id})

PPNext ==
    /\ ~pconn.touched
    /\ \/ \E v \in PpLimits : OnMaxPushId(v)
       \/ \E s \in PpRequests, n \in PpWrites :
             \/ \E how \in {"not_inserted", "uh_refused", "ok"} : PushStream(s, n, how)
             \/ OnWritePP(s, n)
       \/ \E s \in PpRequests : SendHeaders(s) \/ DestroyRequest(s)
       \/ \E s \in PpRequests, b \in BOOLEAN : WantWrite(s, b)
       \/ \E i \in Ids : DestroyPushed(i)
       \/ \E push_id \in 0..MaxPromises : OnCancelPush(push_id) \/ OnGoaway(push_id)

PPSpec == PPInit /\ [][PPNext]_ppvars
-----------------------------------------------------------------------------
(***************************************************************************)
(* A promise is announced on one request, whose list of promises has it.   *)
(* pp_refcnt is the number of streams that hold a reference to it: it is   *)
(* freed when the last of them is gone, not before and not later, and it   *)
(* is in the hash only while it exists.  A promise that was cut has one    *)
(* reference too few: only then can freed memory be accessed, by the       *)
(* destructor of the last stream that holds it.                            *)
(***************************************************************************)
Announcing(i) == {s \in PpRequests : i \in ToSet(reqs[s].promises)}
Holders(i) ==
    (IF Announcing(i) # {} THEN 1 ELSE 0) + (IF pps[i].carried THEN 1 ELSE 0)
RefcntIsHolders ==
    /\ \A i \in Ids : \A s, t \in Announcing(i) : s = t
    /\ pconn.touched => pconn.cut # {}
    /\ ~pconn.touched =>
          \A i \in Ids :
              /\ pps[i].refs = Holders(i) - (IF i \in pconn.cut THEN 1 ELSE 0)
              /\ pps[i].freed <=> pps[i].refs = 0
              /\ pps[i].hashed <=> ~pps[i].freed /\ i \notin pconn.cut

(***************************************************************************)
(* PUSH_PROMISE frames do not mix: on a stream only the last promise can   *)
(* be unfinished, the stream then knows that it is pushing and keeps       *)
(* asking to write unless the user told it not to, no headers overtake it, *)
(* and no more IDs are used than the client allowed.                       *)
(***************************************************************************)
PromisesAreWhole ==
    \A s \in PpRequests :
        LET r == reqs[s] IN
        /\ \A k \in DOMAIN r.promises :
              pps[r.promises[k]].left > 0 => k = 1 /\ r.pushing /\ r.nopush /\ ~r.headers
        /\ r.alive /\ r.pushing => /\ r.promises # <<>> /\ pps[Head(r.promises)].left > 0
                                   /\ r.want \/ ~r.saved
IdsAreAllowed == pps # <<>> => Len(pps) <= pconn.max_push + 1

PushIsSound == RefcntIsHolders /\ PromisesAreWhole /\ IdsAreAllowed
=============================================================================
