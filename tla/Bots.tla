-------------------------------- MODULE Bots --------------------------------
(***************************************************************************)
(* Subscribers of the Telegram bots (src/apps/messenger): a chat lets a    *)
(* bot in, sends a telephone number to be attached to an account of staff, *)
(* throws the bot out.  Notifications go to the chats of the accounts they *)
(* are for, and change nothing here.  The part for Viber is switched off   *)
(* in models/__init__.py.                                                  *)
(*                                                                         *)
(* Telegram is external: it calls the listener of a bot once for each      *)
(* update, several at a time, and again when the answer was an error.      *)
(***************************************************************************)
EXTENDS Integers, FiniteSets

CONSTANTS
  Chats, Bots,
  Subs,           \* keys of subscribers, more than are ever made
  Profiles, NoProfile,
  Phone,          \* the chats whose telephone is found among the accounts, and whose it is
  Threads,
  MaxInFlight,    \* bound: updates handled at one time
  MaxUpdates      \* bound: updates, and processes that die

BotAssumption ==
  /\ NoProfile \notin Profiles
  /\ Phone \in [Chats -> Profiles \cup {NoProfile}]
  /\ IsFiniteSet(Bots) /\ IsFiniteSet(Subs) /\ IsFiniteSet(Threads)
  /\ MaxInFlight \in Nat /\ MaxUpdates \in Nat

VARIABLES
  subs,      \* the rows: chat, bot and account of each subscriber
  handler,   \* the update each thread works on
  doubled,   \* ghost: chats that had two subscribers at once
  updates

vars == <<subs, handler, doubled, updates>>

-----------------------------------------------------------------------------
NoSub == [chat |-> "none"]
Free == [op |-> "free"]
Rows == {s \in Subs : subs[s] # NoSub}
Of(c) == {s \in Rows : subs[s].chat = c}
SubsOf(c, b) == {s \in Of(c) : subs[s].bot = b}
Unused == {s \in Subs : subs[s] = NoSub}

Goes(t, q) == handler' = [handler EXCEPT ![t] = q]
InFlight == Cardinality({t \in Threads : handler[t] # Free})
Begin(t, q) ==
  /\ handler[t] = Free /\ InFlight < MaxInFlight
  /\ updates > 0 /\ updates' = updates - 1
  /\ Goes(t, q)

-----------------------------------------------------------------------------
(* inbox_data: a bot that is let in, and one that is thrown out. *)

Member(t, c, b) ==
  /\ Begin(t, [op |-> "get", c |-> c, b |-> b])
  /\ UNCHANGED <<subs, doubled>>

(* _make_subscriber: get_or_create looks, and then makes. *)
Get(t) ==
  /\ handler[t].op = "get"
  /\ LET h == handler[t] IN           \* one is found, and of several an exception
     Goes(t, IF SubsOf(h.c, h.b) = {} THEN [h EXCEPT !.op = "create"] ELSE Free)
  /\ UNCHANGED <<subs, doubled, updates>>

Create(t) ==
  /\ handler[t].op = "create"
  /\ LET h == handler[t] IN
     /\ \E s \in Unused :
          subs' = [subs EXCEPT ![s] = [chat |-> h.c, bot |-> h.b, account |-> NoProfile]]
     /\ doubled' = IF Of(h.c) = {} THEN doubled ELSE doubled \cup {h.c}
  /\ Goes(t, Free)
  /\ UNCHANGED updates

(* _leave_chat_bot: the subscribers of the chat, whichever bot is left. *)
Kicked(t, c, b) ==
  /\ Begin(t, [op |-> "leave", c |-> c, b |-> b])
  /\ UNCHANGED <<subs, doubled>>
Leave(t) ==
  /\ handler[t].op = "leave"
  /\ subs' = [s \in Subs |-> IF s \in Of(handler[t].c) THEN NoSub ELSE subs[s]]
  /\ Goes(t, Free)
  /\ UNCHANGED <<doubled, updates>>

-----------------------------------------------------------------------------
(* _inbox_contact: the subscribers of the chat are counted, the first one is
   read, then, if there were several, all others of all chats are deleted. *)

Contact(t, c, b) ==
  /\ Begin(t, [op |-> "count", c |-> c, b |-> b])
  /\ UNCHANGED <<subs, doubled>>

BugCount(t) ==                                    \* the others go in any case
  /\ handler[t].op = "count"
  /\ LET h == handler[t] IN
     CASE Phone[h.c] = NoProfile -> Goes(t, Free)
       [] Phone[h.c] # NoProfile /\ Of(h.c) = {} -> Goes(t, [h EXCEPT !.op = "get"])
       [] OTHER -> \E s \in Of(h.c) : Goes(t, [op |-> "sweep", c |-> h.c, s |-> s])
  /\ UNCHANGED <<subs, doubled, updates>>

Count(t) ==
  /\ handler[t].op = "count"
  /\ LET h == handler[t] IN
     CASE Phone[h.c] = NoProfile -> Goes(t, Free)
       [] Phone[h.c] # NoProfile /\ Of(h.c) = {} -> Goes(t, [h EXCEPT !.op = "get"])
       [] OTHER -> \E s \in Of(h.c) :
            Goes(t, [op |-> IF Cardinality(Of(h.c)) > 1 THEN "sweep" ELSE "attach",
                     c |-> h.c, s |-> s])
  /\ UNCHANGED <<subs, doubled, updates>>

Sweep(t) ==
  /\ handler[t].op = "sweep"
  /\ subs' = [r \in Subs |-> IF r = handler[t].s THEN subs[r] ELSE NoSub]
  /\ Goes(t, [handler[t] EXCEPT !.op = "attach"])
  /\ UNCHANGED <<doubled, updates>>

(* save(update_fields): nothing for a row that was deleted, and an account is
   attached once; both are an error of the server. *)
Attach(t) ==
  /\ handler[t].op = "attach"
  /\ LET s == handler[t].s
         p == Phone[handler[t].c]
         taken == \E r \in Rows \ {s} : subs[r].account = p
     IN  subs' = IF subs[s] = NoSub \/ taken THEN subs ELSE [subs EXCEPT ![s].account = p]
  /\ Goes(t, Free)
  /\ UNCHANGED <<doubled, updates>>

-----------------------------------------------------------------------------
(* The process dies: what was done stays. *)
Crash(t) ==
  /\ handler[t] # Free
  /\ updates > 0 /\ updates' = updates - 1
  /\ Goes(t, Free)
  /\ UNCHANGED <<subs, doubled>>

-----------------------------------------------------------------------------
Init ==
  /\ subs = [s \in Subs |-> NoSub]
  /\ handler = [t \in Threads |-> Free]
  /\ doubled = {} /\ updates = MaxUpdates

Update(t) ==
  \E c \in Chats, b \in Bots : Member(t, c, b) \/ Kicked(t, c, b) \/ Contact(t, c, b)
Handle(t) == Get(t) \/ Create(t) \/ Leave(t) \/ Count(t) \/ Sweep(t) \/ Attach(t)

Next == \E t \in Threads : Update(t) \/ Handle(t) \/ Crash(t)

Spec == Init /\ [][Next]_vars

-----------------------------------------------------------------------------
(* Properties. *)

(* Every variable keeps its type, and an account is attached once. *)
TypeOK ==
  /\ subs \in [Subs -> {NoSub} \cup [chat : Chats, bot : Bots, account : Profiles \cup {NoProfile}]]
  /\ doubled \subseteq Chats
  /\ \A r, s \in Rows : (r # s /\ subs[r].account # NoProfile) => subs[r].account # subs[s].account
  /\ \A t \in Threads : handler[t].op \in {"sweep", "attach"} => handler[t].s \in Subs
  /\ updates \in 0 .. MaxUpdates

(* A chat loses its subscription only by throwing a bot out, unless some chat had
   two subscriptions: the attachment of one chat must not end those of others. *)
KeptStep ==
  \A s \in Rows :
    subs'[s] = NoSub =>
      \/ doubled # {}
      \/ \E t \in Threads : handler[t].op = "leave" /\ handler[t].c = subs[s].chat

(* With one bot, and updates one at a time, no chat has two. *)
OnePerChat == (MaxInFlight = 1 /\ Cardinality(Bots) = 1) => doubled = {}
=============================================================================
