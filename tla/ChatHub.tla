------------------------------ MODULE ChatHub ------------------------------
(***************************************************************************)
(* The WebSocket hub of one chat thread (ChatWebSocketHub in app/chat.py,  *)
(* chat_websocket in app/main.py) and the requests that post to the thread *)
(* and broadcast what they posted.                                         *)
(*                                                                         *)
(* A post is an INSERT and further statements, each a commit of its own,   *)
(* then the broadcast, which copies the hub's list under its lock and      *)
(* sends outside it, one socket after the other.  A socket enters the list *)
(* once, so the list is a set here, and a broadcast takes its sockets in   *)
(* any order.  A message is its position in the thread; who sent it is a   *)
(* matter of ChatReads.                                                    *)
(***************************************************************************)
EXTENDS Naturals

CONSTANTS
  Sockets,       \* WebSocket objects, never used twice
  Posts,         \* requests that may post at the same time
  MaxPosted      \* bound on the messages of the thread

ASSUME MaxPostedAssumption == MaxPosted \in Nat

VARIABLES
  posted,    \* the messages of the thread are 1..posted
  post,      \* per request: what it posts and to whom it still sends
  hub,       \* _connections[thread_id]
  socket,    \* per socket: its life
  fetched,   \* the sockets whose client has loaded the thread since
  shown,     \* per socket: the messages its client shows
  dropped    \* messages whose request raised before its broadcast

hubVars == <<posted, post, hub, socket, fetched, shown, dropped>>

Posted == 1..MaxPosted

Post ==
  [pc    : {"free", "inserted", "send", "clean"},
   m     : 0..MaxPosted,
   todo  : SUBSET Sockets,      \* the rest of thread_sockets
   stale : SUBSET Sockets]

NoPost == [pc |-> "free", m |-> 0, todo |-> {}, stale |-> {}]

HubTypeOK ==
  /\ posted \in 0..MaxPosted
  /\ post \in [Posts -> Post]
  /\ hub \subseteq Sockets
  /\ socket \in [Sockets -> {"new", "open", "gone", "left"}]
  /\ fetched \subseteq Sockets
  /\ shown \in [Sockets -> SUBSET Posted]
  /\ dropped \subseteq Posted

HubInit ==
  /\ posted = 0
  /\ post = [p \in Posts |-> NoPost]
  /\ hub = {}
  /\ socket = [w \in Sockets |-> "new"]
  /\ fetched = {}
  /\ shown = [w \in Sockets |-> {}]
  /\ dropped = {}

----------------------------------------------------------------------------
(* Posting.                                                                *)

AtPost(p, pc) == post[p].pc = pc
EndPost(p) == post' = [post EXCEPT ![p] = NoPost]

InsertMessage(p) ==
  /\ AtPost(p, "free")
  /\ posted < MaxPosted
  /\ posted' = posted + 1
  /\ post' = [post EXCEPT ![p] = [NoPost EXCEPT !.pc = "inserted",
                                                !.m = posted + 1]]
  /\ UNCHANGED <<hub, socket, fetched, shown, dropped>>

(* A later statement of the request raises: the message is stored and not  *)
(* broadcast.                                                              *)
PostRaises(p) ==
  /\ AtPost(p, "inserted")
  /\ dropped' = dropped \cup {post[p].m}
  /\ EndPost(p)
  /\ UNCHANGED <<posted, hub, socket, fetched, shown>>

----------------------------------------------------------------------------
(* Connections.                                                            *)

Connect(w) ==
  /\ socket[w] = "new"
  /\ socket' = [socket EXCEPT ![w] = "open"]
  /\ hub' = hub \cup {w}
  /\ UNCHANGED <<posted, post, fetched, shown, dropped>>

FetchMessages(w) ==                 \* list_thread_messages, after "ready"
  /\ socket[w] = "open"
  /\ w \notin fetched
  /\ fetched' = fetched \cup {w}
  /\ shown' = [shown EXCEPT ![w] = @ \cup 1..posted]
  /\ UNCHANGED <<posted, post, hub, socket, dropped>>

ClientGoes(w) ==                    \* without a word
  /\ socket[w] = "open"
  /\ socket' = [socket EXCEPT ![w] = "gone"]
  /\ UNCHANGED <<posted, post, hub, fetched, shown, dropped>>

Left_ClosesThread(w) == {}          \* mutant: pops the thread's whole entry

Left(w) == hub \ {w}

Disconnect(w) ==                    \* the handler of the socket ends
  /\ socket[w] = "gone"
  /\ socket' = [socket EXCEPT ![w] = "left"]
  /\ hub' = Left(w)
  /\ UNCHANGED <<posted, post, fetched, shown, dropped>>

----------------------------------------------------------------------------
(* Broadcasts.                                                             *)

Snapshot(p) ==
  /\ AtPost(p, "inserted")
  /\ IF hub = {} THEN EndPost(p)
     ELSE post' = [post EXCEPT ![p].pc = "send", ![p].todo = hub]
  /\ UNCHANGED <<posted, hub, socket, fetched, shown, dropped>>

SendNext(p) ==
  /\ AtPost(p, "send")
  /\ \E w \in post[p].todo :
       LET sent == [post EXCEPT ![p].todo = @ \ {w}] IN
       \/ /\ socket[w] = "open"
          /\ shown' = [shown EXCEPT ![w] = @ \cup {post[p].m}]
          /\ post' = sent
       \/ /\ socket[w] = "gone"     \* the write may still be buffered
          /\ post' = sent
          /\ UNCHANGED shown
       \/ /\ socket[w] # "open"
          /\ post' = [sent EXCEPT ![p].stale = @ \cup {w}]
          /\ UNCHANGED shown
  /\ UNCHANGED <<posted, hub, socket, fetched, dropped>>

EndSending(p) ==
  /\ AtPost(p, "send")
  /\ post[p].todo = {}
  /\ IF post[p].stale = {} THEN EndPost(p)
     ELSE post' = [post EXCEPT ![p].pc = "clean"]
  /\ UNCHANGED <<posted, hub, socket, fetched, shown, dropped>>

Cleaned(stale) == hub \ stale

CleanStale(p) ==
  /\ AtPost(p, "clean")
  /\ hub' = Cleaned(post[p].stale)
  /\ EndPost(p)
  /\ UNCHANGED <<posted, socket, fetched, shown, dropped>>

(* The process is replaced: hub and requests are gone, sockets break.      *)
Restart ==
  /\ \E w \in Sockets : socket[w] \in {"open", "gone"}
  /\ hub' = {}
  /\ socket' = [w \in Sockets |->
       IF socket[w] = "new" THEN "new" ELSE "left"]
  /\ dropped' = dropped \cup {post[p].m : p \in {q \in Posts : ~AtPost(q, "free")}}
  /\ post' = [p \in Posts |-> NoPost]
  /\ UNCHANGED <<posted, fetched, shown>>

PostStep(p) ==
  \/ InsertMessage(p) \/ PostRaises(p)
  \/ Snapshot(p) \/ SendNext(p) \/ EndSending(p) \/ CleanStale(p)

HubNext ==
  \/ \E p \in Posts : PostStep(p)
  \/ \E w \in Sockets :
       Connect(w) \/ FetchMessages(w) \/ ClientGoes(w) \/ Disconnect(w)
  \/ Restart

HubSpec == HubInit /\ [][HubNext]_hubVars

----------------------------------------------------------------------------
(* Properties.                                                             *)

OnItsWay(m, w) ==
  \E p \in Posts :
    /\ post[p].m = m
    /\ AtPost(p, "inserted") \/ w \in post[p].todo

(* A client whose socket is open and which has loaded the thread since     *)
(* shows every message, except those whose request raised and those still  *)
(* being sent to it: none falls between the list and the socket, whoever   *)
(* connects, goes or breaks during the broadcasts.                         *)
NothingMissed ==
  \A w \in fetched :
    socket[w] = "open" =>
      \A m \in 1..posted : m \in shown[w] \cup dropped \/ OnItsWay(m, w)
=============================================================================
