------------------------------ MODULE Subscription ------------------------------
(***************************************************************************)
(* The file of subscriptions and the list that is read from it (rc-        *)
(* subscription.c).  The list is loaded whenever it is empty.  Entries     *)
(* imported from a 1.x file are "old": they name the tail of a channel's   *)
(* legacy id, and become ordinary ones when a channel matches them.  Times *)
(* matter for old entries only.                                            *)
(***************************************************************************)
EXTENDS Integers, Sequences, FiniteSets, SequencesExt

CONSTANTS
  Channels,      \* channels, by their ids
  OldIds,        \* ids of 1.x subscriptions
  Tails,         \* per channel, the old ids that its legacy id ends in
  Files,         \* what the subscription file may hold at first
  OldFiles,      \* what the 1.x file may hold
  ABSENT, MALFORMED,
  Expiration,    \* OLD_SUBSCRIPTION_EXPIRATION
  MaxTime,
  UNKNOWN

Entries == [id : Channels, old : {FALSE}, seen : {0}]
             \cup [id : OldIds, old : {TRUE}, seen : 0..MaxTime]

\* What the constants are, assumed wherever they are given values.
SubscriptionAssumption ==
  /\ Tails \in [Channels -> SUBSET OldIds]
  /\ Expiration \in Nat /\ MaxTime \in Nat
  /\ UNKNOWN \notin BOOLEAN
  /\ Channels \cap OldIds = {}
  /\ \A f \in Files \ {ABSENT, MALFORMED} : f \in Seq(Entries)
  /\ \A f \in OldFiles \ {ABSENT, MALFORMED} : f \in Seq(OldIds)
  /\ ABSENT \notin Seq(Entries) /\ MALFORMED \notin Seq(Entries)

VARIABLES
  file,     \* ABSENT, MALFORMED or a sequence of entries
  oldFile,  \* ABSENT, MALFORMED or a sequence of old ids
  list,     \* subscriptions: [id, old, seen]
  changed,  \* subscriptions_changed
  tried,    \* tried_to_do_this_already
  now,
  asked,    \* the status each channel was given last by this process
  kept      \* the status each channel was given last, if it was saved

state == <<file, list, changed, tried>>
vars  == <<file, oldFile, list, changed, tried, now, asked, kept>>

Entry(id) == [id |-> id, old |-> FALSE, seen |-> 0]

Init ==
  /\ file \in Files /\ oldFile \in OldFiles
  /\ list = <<>> /\ changed = FALSE /\ tried = FALSE
  /\ now = 0
  /\ asked = [c \in Channels |-> UNKNOWN] /\ kept = [c \in Channels |-> UNKNOWN]

\* The variables that the operations below work on, as a record.
Here == [file |-> file, list |-> list, changed |-> changed, tried |-> tried]

Becomes(s) ==
  file' = s.file /\ list' = s.list /\ changed' = s.changed /\ tried' = s.tried

-----------------------------------------------------------------------------
\* What a list has of a set, in its order: the k-th is the one up to which there are k.
Kept(s, A) ==
  LET places  == {i \in 1..Len(s) : s[i] \in A}
      rank(i) == Cardinality({j \in places : j <= i})
  IN  [k \in 1..Cardinality(places) |-> s[CHOOSE i \in places : rank(i) = k]]

\* Entries that are not old, or have been seen lately.
Current == {e \in Entries : ~e.old \/ now - e.seen <= Expiration}

\* rc_subscription_save: without old entries that have not been seen for long.
Save(s, ok) ==
  IF s.changed /\ ok THEN [s EXCEPT !.file = Kept(s.list, Current), !.changed = FALSE] ELSE s

\* rc_subscription_load_old_subscriptions
LoadOld(s, ok) ==
  IF s.tried \/ oldFile \in {ABSENT, MALFORMED} THEN [s EXCEPT !.tried = TRUE]
  ELSE Save([s EXCEPT !.tried = TRUE, !.changed = TRUE,
                      !.list = Reverse([i \in DOMAIN oldFile |->
                                          [id |-> oldFile[i], old |-> TRUE, seen |-> now]]) \o @],
            ok)

\* rc_subscription_load: the last entry of the file becomes the first.
Load(s, ok) ==
  IF s.file = ABSENT THEN LoadOld(s, ok)
  ELSE IF s.file = MALFORMED THEN s
  ELSE [s EXCEPT !.list = Reverse(s.file) \o @]

\* Whether rc_subscription_match finds an entry for a channel.
Matches(e, c) == IF e.old THEN e.id \in Tails[c] ELSE e.id = c

FirstMatch(s, c) == SelectInSeq(s.list, LAMBDA e : Matches(e, c))

\* rc_subscription_match: an old entry becomes one for the channel.
Match(s, c) ==
  LET i == FirstMatch(s, c)
  IN  IF s.list[i].old THEN [s EXCEPT !.list[i] = Entry(c), !.changed = TRUE] ELSE s

\* rc_subscription_get_status: [state, subscribed].
GetStatus(s, c, ok) ==
  LET t == IF s.list = <<>> THEN Load(s, ok) ELSE s
  IN  IF FirstMatch(t, c) # 0 THEN [state |-> Match(t, c), subscribed |-> TRUE]
      ELSE [state |-> Save(t, ok), subscribed |-> FALSE]

Subscribed(c) == GetStatus(Here, c, TRUE).subscribed

\* Faulty: the change is not noted.
SetStatusUnnoted(s, c, subscribe, ok) ==
  LET got == GetStatus(s, c, ok)
      t   == got.state
  IN  Save(IF got.subscribed /\ ~subscribe
           THEN [t EXCEPT !.list = RemoveAt(@, FirstMatch(t, c))]
           ELSE IF ~got.subscribed /\ subscribe
           THEN [t EXCEPT !.list = <<Entry(c)>> \o @, !.changed = TRUE]
           ELSE t, ok)

\* rc_subscription_set_status: the first entry that matches is removed.
SetStatus(s, c, subscribe, ok) ==
  LET got == GetStatus(s, c, ok)
      t   == got.state
  IN  Save(IF got.subscribed /\ ~subscribe
           THEN [t EXCEPT !.list = RemoveAt(@, FirstMatch(t, c)), !.changed = TRUE]
           ELSE IF ~got.subscribed /\ subscribe
           THEN [t EXCEPT !.list = <<Entry(c)>> \o @, !.changed = TRUE]
           ELSE t, ok)

-----------------------------------------------------------------------------
\* A save may fail, when the file cannot be written.
Get(c, ok) ==
  /\ Becomes(GetStatus(Here, c, ok).state)
  /\ UNCHANGED <<oldFile, now, asked, kept>>

Set(c, subscribe, ok) ==
  /\ Becomes(SetStatus(Here, c, subscribe, ok))
  /\ asked' = [asked EXCEPT ![c] = subscribe]
  /\ kept' = [kept EXCEPT ![c] = IF changed' THEN UNKNOWN ELSE subscribe]
  /\ UNCHANGED <<oldFile, now>>

\* The process ends and is started again.
Restart ==
  /\ list' = <<>> /\ changed' = FALSE /\ tried' = FALSE
  /\ asked' = [c \in Channels |-> UNKNOWN]
  /\ UNCHANGED <<file, oldFile, now, kept>>

Tick == now < MaxTime /\ now' = now + 1 /\ UNCHANGED <<state, oldFile, asked, kept>>

\* The steps, with the outcomes that a save may have.
NextWith(outcomes) ==
  \/ \E c \in Channels, ok \in outcomes :
       Get(c, ok) \/ \E subscribe \in BOOLEAN : Set(c, subscribe, ok)
  \/ Restart
  \/ Tick

Next == NextWith(BOOLEAN)

Spec == Init /\ [][Next]_vars

-----------------------------------------------------------------------------
\* Everything of its type.
TypeOK ==
  /\ file \in {ABSENT, MALFORMED} \/ file \in Seq(Entries)
  /\ list \in Seq(Entries)
  /\ now \in 0..MaxTime
  /\ changed \in BOOLEAN /\ tried \in BOOLEAN

\* A channel has the status it was given (rc_subscription_set_status).
AskedIsSeen == \A c \in Channels : asked[c] \in {UNKNOWN, Subscribed(c)}

\* A status that was given and saved outlives the process
\* (rc_subscription_save, rc_subscription_load).
KeptIsSeen == \A c \in Channels : kept[c] \in {UNKNOWN, Subscribed(c)}

\* When there is nothing to save, the file says what the list says, but for old entries
\* that have expired: a restart changes nothing else (subscriptions_changed).
SavedUnlessChanged ==
  ~changed /\ list # <<>> =>
    /\ file \notin {ABSENT, MALFORMED}
    /\ ToSet(file) \subseteq ToSet(list)
    /\ \A e \in ToSet(list) \ ToSet(file) : e.old /\ now - e.seen > Expiration

=============================================================================
