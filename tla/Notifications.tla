---------------------------- MODULE Notifications ----------------------------
(***************************************************************************)
(* Who is told what: the notification service (one consumer group per      *)
(* kind of message, rows, device tokens, pushes), the feed service, and    *)
(* the sockets of the gateway.                                             *)
(*                                                                         *)
(* A happening is a message of another service, <<kind, user, number>>,    *)
(* there from the start; a kind may have any number of them.  A group      *)
(* handles one message at a time, until it is acknowledged.  The shared    *)
(* consumer loop catches what a handler throws, so an "error" of the       *)
(* database or of Kafka acknowledges the message as it is; after a "crash" *)
(* it comes again.  Which of the two a behaviour has is chosen once.       *)
(* Texts and page numbers are left out.                                    *)
(***************************************************************************)
EXTENDS Integers, Sequences, FiniteSets

CONSTANTS
  Happenings,     \* the messages
  Recipients, Devices, Sockets,
  MaxRows,        \* bound: notifications in a behaviour
  MaxMoves        \* bound: requests of users in a behaviour

Kinds == {"TRADE_CONFIRMED", "MARKET_SETTLED", "DEPOSIT_COMPLETED",
          "WITHDRAWAL_COMPLETED", "WITHDRAWAL_FAILED", "KYC_REVIEWED"}

Nobody == "nobody"

NotificationsAssumption ==
  /\ Happenings \subseteq Kinds \X Recipients \X Nat
  /\ IsFiniteSet(Happenings)
  /\ Nobody \notin Recipients
  /\ MaxRows \in Nat /\ MaxMoves \in Nat

VARIABLES
  faults,
  notifications,  \* rows: what they are about, read, announced (NOTIFICATION_CREATED)
  worker,         \* the handler of each message
  feedItem,       \* rows of the feed per message
  acked,          \* messages acknowledged by "notify", "feed"
  deviceToken,    \* owner of each device
  owners,         \* history: who has registered a device
  pushed,         \* pushes: device and user
  room,           \* the user behind each socket
  shown,          \* whose affairs each socket has been sent since it connected
  moves

service == <<notifications, worker, feedItem, acked, pushed>>
clients == <<deviceToken, owners, room, shown>>
vars    == <<faults, service, clients, moves>>

Rows      == DOMAIN notifications
UserOf(e) == e[2]
Resting   == [pc |-> "idle", devices |-> {}]

TypeOK ==
  /\ faults \subseteq {"error", "crash"}
  /\ notifications \in Seq([about: Happenings, read: BOOLEAN, announced: BOOLEAN])
  /\ worker \in [Happenings -> [pc: {"idle", "publish", "tokens", "push"},
                                devices: SUBSET Devices]]
  /\ feedItem \in [Happenings -> Nat]
  /\ acked \subseteq {"notify", "feed"} \X Happenings
  /\ deviceToken \in [Devices -> Recipients \cup {Nobody}]
  /\ owners \subseteq Devices \X Recipients
  /\ pushed \subseteq Devices \X Recipients
  /\ room \in [Sockets -> Recipients \cup {Nobody}]
  /\ shown \in [Sockets -> SUBSET Recipients]
  /\ moves \in 0..MaxMoves

Init ==
  /\ faults \in SUBSET {"error", "crash"}
  /\ notifications = <<>>
  /\ worker = [e \in Happenings |-> Resting]
  /\ feedItem = [e \in Happenings |-> 0]
  /\ acked = {}
  /\ deviceToken = [d \in Devices |-> Nobody]
  /\ owners = {} /\ pushed = {}
  /\ room = [s \in Sockets |-> Nobody]
  /\ shown = [s \in Sockets |-> {}]
  /\ moves = 0

-----------------------------------------------------------------------------
(* createAndSend: a row, its announcement, the push.  An error ends it.    *)
Work(e, w)    == worker' = [worker EXCEPT ![e] = w]
Acknowledge(e) == acked' = acked \cup {<<"notify", e>>} /\ Work(e, Resting)

GroupIsFree(e) == \A f \in Happenings : f[1] = e[1] => worker[f] = Resting

CreateNotification(e) ==
  /\ GroupIsFree(e)
  /\ <<"notify", e>> \notin acked
  /\ \/ /\ Len(notifications) < MaxRows
        /\ notifications' = Append(notifications,
                                   [about |-> e, read |-> FALSE, announced |-> FALSE])
        /\ Work(e, [Resting EXCEPT !.pc = "publish"])
        /\ UNCHANGED acked
     \/ "error" \in faults /\ Acknowledge(e) /\ UNCHANGED notifications
  /\ UNCHANGED <<faults, feedItem, pushed, clients, moves>>

(* A group has one message at a time, so it is the newest row about it. *)
NewestRow(e) == CHOOSE i \in Rows :
                  /\ notifications[i].about = e
                  /\ \A j \in Rows : notifications[j].about = e => j <= i

PublishCreated(e) ==
  /\ worker[e].pc = "publish"
  /\ \/ /\ notifications' = [notifications EXCEPT ![NewestRow(e)].announced = TRUE]
        /\ Work(e, [Resting EXCEPT !.pc = "tokens"])
        /\ UNCHANGED acked
     \/ "error" \in faults /\ Acknowledge(e) /\ UNCHANGED notifications
  /\ UNCHANGED <<faults, feedItem, pushed, clients, moves>>

(* Mutant: the tokens are read without their user. *)
AnyDevices(u) == {d \in Devices : deviceToken[d] # Nobody}

DevicesOf(u) == {d \in Devices : deviceToken[d] = u}

ReadTokens(e) ==
  /\ worker[e].pc = "tokens"
  /\ IF DevicesOf(UserOf(e)) = {} THEN Acknowledge(e)
     ELSE Work(e, [pc |-> "push", devices |-> DevicesOf(UserOf(e))]) /\ UNCHANGED acked
  /\ UNCHANGED <<faults, notifications, feedItem, pushed, clients, moves>>

sendMulticast(e) ==
  /\ worker[e].pc = "push"
  /\ \/ pushed' = pushed \cup (worker[e].devices \X {UserOf(e)})
     \/ "error" \in faults /\ UNCHANGED pushed
  /\ Acknowledge(e)
  /\ UNCHANGED <<faults, notifications, feedItem, clients, moves>>

Crash ==
  /\ "crash" \in faults
  /\ \E e \in Happenings : worker[e] # Resting
  /\ worker' = [e \in Happenings |-> Resting]
  /\ UNCHANGED <<faults, notifications, feedItem, acked, pushed, clients, moves>>

-----------------------------------------------------------------------------
(* The feed takes no failed withdrawals and no reviews.  It catches errors *)
(* of its database itself.                                                 *)
InFeed(e) == e[1] \notin {"WITHDRAWAL_FAILED", "KYC_REVIEWED"}

addToFeed(e) ==
  /\ InFeed(e)
  /\ <<"feed", e>> \notin acked
  /\ \E created, committed \in BOOLEAN :
       /\ created \/ faults # {}
       /\ committed \/ "crash" \in faults
       /\ created \/ ~committed \/ "error" \in faults
       /\ feedItem[e] + (IF created THEN 1 ELSE 0) <= MaxRows
       /\ feedItem' = [feedItem EXCEPT ![e] = @ + (IF created THEN 1 ELSE 0)]
       /\ acked' = IF committed THEN acked \cup {<<"feed", e>>} ELSE acked
  /\ UNCHANGED <<faults, notifications, worker, pushed, clients, moves>>

-----------------------------------------------------------------------------
(* The gateway: an announcement or a message goes to the user's sockets.   *)
Emit(u) ==
  /\ shown' = [s \in Sockets |-> IF room[s] = u THEN shown[s] \cup {u} ELSE shown[s]]
  /\ UNCHANGED <<faults, service, deviceToken, owners, room, moves>>

emitNotificationCreated ==
  \E i \in Rows : notifications[i].announced /\ Emit(UserOf(notifications[i].about))

(* A settlement (with wallet:refetch), or a payment update. *)
EmitHappening ==
  \E e \in Happenings :
    e[1] \notin {"TRADE_CONFIRMED", "KYC_REVIEWED"} /\ Emit(UserOf(e))

-----------------------------------------------------------------------------
(* What users do: requests, connections (counted), and disconnections. *)
Move == moves < MaxMoves /\ moves' = moves + 1 /\ UNCHANGED faults

ClearScreen(s) == [shown EXCEPT ![s] = {}]

handleConnection(s, u) ==
  /\ Move
  /\ room[s] = Nobody
  /\ room' = [room EXCEPT ![s] = u]
  /\ shown' = ClearScreen(s)
  /\ UNCHANGED <<service, deviceToken, owners>>

handleDisconnect(s) ==
  /\ room[s] # Nobody
  /\ room' = [room EXCEPT ![s] = Nobody]
  /\ UNCHANGED <<faults, service, deviceToken, owners, shown, moves>>

registerDeviceToken(u, d) ==
  /\ Move
  /\ deviceToken' = [deviceToken EXCEPT ![d] = u]
  /\ owners' = owners \cup {<<d, u>>}
  /\ UNCHANGED <<service, room, shown>>

removeDeviceToken(d) ==
  /\ Move
  /\ deviceToken' = [deviceToken EXCEPT ![d] = Nobody]
  /\ UNCHANGED <<service, owners, room, shown>>

RowsOf(u) == {i \in Rows : UserOf(notifications[i].about) = u}

Read(S) == notifications' = [i \in Rows |-> [notifications[i] EXCEPT
                               !.read = notifications[i].read \/ i \in S]]

markRead(u) ==
  /\ Move
  /\ \E i \in RowsOf(u) : Read({i})
  /\ UNCHANGED <<worker, feedItem, acked, pushed, clients>>

markAllRead(u) ==
  /\ Move
  /\ Read(RowsOf(u))
  /\ UNCHANGED <<worker, feedItem, acked, pushed, clients>>

Next ==
  \/ \E e \in Happenings :
       \/ CreateNotification(e) \/ PublishCreated(e) \/ ReadTokens(e) \/ sendMulticast(e)
       \/ addToFeed(e)
  \/ Crash \/ emitNotificationCreated \/ EmitHappening
  \/ \E u \in Recipients :
       \/ markRead(u) \/ markAllRead(u)
       \/ \E s \in Sockets : handleConnection(s, u)
       \/ \E d \in Devices : registerDeviceToken(u, d)
  \/ \E s \in Sockets : handleDisconnect(s)
  \/ \E d \in Devices : removeDeviceToken(d)

Spec == Init /\ [][Next]_vars

-----------------------------------------------------------------------------
getForUser(u) ==
  [data        |-> RowsOf(u),
   total       |-> Cardinality(RowsOf(u)),
   unreadCount |-> Cardinality({i \in RowsOf(u) : ~notifications[i].read})]

getUserFeed(u) == {e \in Happenings : UserOf(e) = u /\ feedItem[e] > 0}

RowsAbout(e) == {i \in Rows : notifications[i].about = e}

(* Nobody is told of another user's affairs: a screen shows what belongs   *)
(* to the user logged in there, a device is pushed to for users that did   *)
(* register it.  (Not: that have it now; the device may change hands       *)
(* between the read of the tokens and the push.)                           *)
ToldTheirOwn ==
  /\ \A s \in Sockets : room[s] # Nobody => shown[s] \subseteq {room[s]}
  /\ pushed \subseteq owners

(* Crashes lose nothing: without errors, what was acknowledged has been    *)
(* announced to the bell and is in the feed.  Errors repeat nothing:       *)
(* without crashes it is in the list and in the feed once, and the badge   *)
(* counts it once.  (A crash may repeat, an error may lose it, or leave it *)
(* in the list unannounced.)                                               *)
ToldOfEverything ==
  \A e \in Happenings :
    /\ "error" \notin faults =>
         /\ <<"notify", e>> \in acked => \E i \in RowsAbout(e) : notifications[i].announced
         /\ <<"feed", e>> \in acked => e \in getUserFeed(UserOf(e))
    /\ "crash" \notin faults =>
         /\ Cardinality(RowsAbout(e)) <= 1 /\ feedItem[e] <= 1
         /\ getForUser(UserOf(e)).unreadCount
              <= Cardinality({f \in Happenings : UserOf(f) = UserOf(e)})
=============================================================================
