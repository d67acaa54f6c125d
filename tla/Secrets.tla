------------------------------ MODULE Secrets -------------------------------
(***************************************************************************)
(* Secrets that are kept while the rest of a form is edited: the API key   *)
(* of a remote instance and the secret of a notification channel, two      *)
(* specifications.                                                         *)
(***************************************************************************)
EXTENDS Naturals, FiniteSets

(***************************************************************************)
(* The registry of remote instances (remote/registry.go): one row with its *)
(* URL and its sealed API key.  Update without a key keeps the stored one, *)
(* after comparing the URL with the stored URL in a read of its own.  Keys *)
(* sealed under the legacy key are sealed again by the first read.  A      *)
(* collection lists the rows, reads the key, and sends it to the URL of    *)
(* its list.                                                               *)
(***************************************************************************)
CONSTANTS Urls, Keys, RemoteEditorsOf, \* administrators updating the row
          NoKey, MaxRemoteWrites       \* bound: updates

ASSUME RemoteStoreBounds == MaxRemoteWrites \in Nat /\ NoKey \notin Keys

VARIABLES remote,   \* [url, key, legacy]
          change,   \* each update: [pc, url, key]; key NoKey means keep
          fetch,    \* the collection: [pc, url, key]
          sentTo,   \* history: pairs of URL and key used in a request
          entered,  \* history: pairs an administrator entered together
          crossed,  \* history: an update overlapped another update, or a collection
          remoteWrites

remoteVars == <<remote, change, fetch, sentTo, entered, crossed, remoteWrites>>

NoChange == [pc |-> "idle", url |-> CHOOSE u \in Urls : TRUE, key |-> NoKey]
Pairs == Urls \X Keys

\* Type correctness of the registry.
RemoteStoreTypeOK ==
    /\ remote \in [url: Urls, key: Keys, legacy: BOOLEAN]
    /\ change \in [RemoteEditorsOf -> [pc: {"idle", "compared", "valid"}, url: Urls, key: Keys \cup {NoKey}]]
    /\ fetch \in [pc: {"idle", "listed", "opened", "send"}, url: Urls, key: Keys \cup {NoKey}]
    /\ sentTo \subseteq Pairs /\ entered \subseteq Pairs
    /\ crossed \in BOOLEAN /\ remoteWrites \in 0..MaxRemoteWrites

RemoteStoreInit ==
    /\ \E p \in Pairs : remote = [url |-> p[1], key |-> p[2], legacy |-> TRUE] /\ entered = {p}
    /\ change = [e \in RemoteEditorsOf |-> NoChange]
    /\ fetch = [pc |-> "idle", url |-> NoChange.url, key |-> NoKey]
    /\ sentTo = {} /\ crossed = FALSE /\ remoteWrites = 0

\* Is anyone but e between two steps?
Others(e) == (\E f \in RemoteEditorsOf \ {e} : change[f].pc # "idle") \/ fetch.pc # "idle"

Begin(e, pc, u, k) ==
    /\ change[e].pc = "idle" /\ remoteWrites < MaxRemoteWrites
    /\ change' = [change EXCEPT ![e] = [pc |-> pc, url |-> u, key |-> k]]
    /\ crossed' = (crossed \/ Others(e))
    /\ remoteWrites' = remoteWrites + 1
    /\ UNCHANGED <<remote, fetch, sentTo, entered>>

\* Update with a key: validated, sealed, and written as a pair.
UpdateWithKey(e, u, k) == Begin(e, "valid", u, k)

\* Seeded fault: the key is kept whatever URL comes with the update.
UpdateKeepAny(e, u) == Begin(e, "compared", u, NoKey)

\* Update without a key: refused unless the URL is the stored one.
UpdateKeepKey(e, u) == remote.url = u /\ Begin(e, "compared", u, NoKey)

WriteUpdate(e) ==
    LET c == change[e] IN
    /\ c.pc # "idle"
    /\ remote' = IF c.key = NoKey THEN [remote EXCEPT !.url = c.url]
                 ELSE [url |-> c.url, key |-> c.key, legacy |-> FALSE]
    /\ entered' = IF c.key = NoKey THEN entered ELSE entered \cup {<<c.url, c.key>>}
    /\ change' = [change EXCEPT ![e] = NoChange]
    /\ UNCHANGED <<fetch, sentTo, crossed, remoteWrites>>

\* Due, at the start of a poll: the URL is taken from this list.
ListDue ==
    /\ fetch.pc = "idle"
    /\ fetch' = [fetch EXCEPT !.pc = "listed", !.url = remote.url]
    /\ crossed' = (crossed \/ \E e \in RemoteEditorsOf : change[e].pc # "idle")
    /\ UNCHANGED <<remote, change, sentTo, entered, remoteWrites>>

\* credential: decrypt, and seal a legacy key again in a second statement.
OpenCredential ==
    /\ fetch.pc = "listed"
    /\ fetch' = [fetch EXCEPT !.pc = IF remote.legacy THEN "opened" ELSE "send", !.key = remote.key]
    /\ UNCHANGED <<remote, change, sentTo, entered, crossed, remoteWrites>>

SealAgain ==
    /\ fetch.pc = "opened"
    /\ remote' = [remote EXCEPT !.key = fetch.key, !.legacy = FALSE]
    /\ fetch' = [fetch EXCEPT !.pc = "send"]
    /\ UNCHANGED <<change, sentTo, entered, crossed, remoteWrites>>

FetchRemote ==
    /\ fetch.pc = "send"
    /\ sentTo' = sentTo \cup {<<fetch.url, fetch.key>>}
    /\ fetch' = [pc |-> "idle", url |-> NoChange.url, key |-> NoKey]
    /\ UNCHANGED <<remote, change, entered, crossed, remoteWrites>>

RemoteStoreNext ==
    \/ \E e \in RemoteEditorsOf :
         \/ \E u \in Urls : UpdateKeepKey(e, u) \/ \E k \in Keys : UpdateWithKey(e, u, k)
         \/ WriteUpdate(e)
    \/ ListDue \/ OpenCredential \/ SealAgain \/ FetchRemote

RemoteStoreSpec == RemoteStoreInit /\ [][RemoteStoreNext]_remoteVars

-----------------------------------------------------------------------------
\* "The stored credential [...] must never follow a URL change without being
\* re-entered" (remote/registry.go): as long as updates and collections do
\* not overlap, the key stored beside a URL and the key sent to it were
\* entered with that URL, also across keep-key updates and re-sealing.
KeyStaysWithItsUrl ==
    ~crossed => /\ <<remote.url, remote.key>> \in entered
                /\ sentTo \subseteq entered

-----------------------------------------------------------------------------
(***************************************************************************)
(* Editing a notification channel whose configuration holds a secret       *)
(* (handlers/notification_channels.go, secret_mask.go).  Every answer      *)
(* shows a placeholder for the secret; a client that sends it back means   *)
(* "leave it as it is", and Update puts the stored secret in its place:    *)
(* the stored configuration is read, and written a step later.             *)
(***************************************************************************)
CONSTANTS ChannelEditors,  \* clients with a form of the channel open
          Secrets,         \* values the secret may be given
          NoSecret, Placeholder,
          MaxChannelWrites \* bound: updates, deletions and creations

ASSUME ChannelFormBounds ==
    MaxChannelWrites \in Nat /\ Placeholder \notin Secrets \cup {NoSecret}

VARIABLES channel,    \* the channel: [exists, secret]
          form,       \* [pc, shows, sends, found]
          typed,      \* history: the secret last typed in or removed on purpose
          collided,   \* history: two updates overlapped
          channelWrites

channelVars == <<channel, form, typed, collided, channelWrites>>

Values == Secrets \cup {NoSecret, Placeholder}
ClosedForm == [pc |-> "closed", shows |-> NoSecret, sends |-> NoSecret, found |-> NoSecret]

\* Type correctness of the channel and its forms.
ChannelFormsTypeOK ==
    /\ channel \in [exists: BOOLEAN, secret: Values]
    /\ form \in [ChannelEditors -> [pc: {"closed", "open", "update"}, shows: Values,
                                    sends: Values, found: Values]]
    /\ typed \in Values /\ collided \in BOOLEAN /\ channelWrites \in 0..MaxChannelWrites

ChannelFormsInit ==
    /\ channel \in [exists: {TRUE}, secret: Secrets]
    /\ form = [e \in ChannelEditors |-> ClosedForm]
    /\ typed = channel.secret /\ collided = FALSE /\ channelWrites = 0

\* maskChannel: a secret that is set shows as the placeholder.
MaskValue(v) == IF v = NoSecret THEN NoSecret ELSE Placeholder

Get(e) ==
    /\ form[e].pc = "closed" /\ channel.exists
    /\ form' = [form EXCEPT ![e] = [ClosedForm EXCEPT !.pc = "open", !.shows = MaskValue(channel.secret)]]
    /\ UNCHANGED <<channel, typed, collided, channelWrites>>

\* The client leaves the field as shown, types a new secret or empties it,
\* and sends the form; Update reads the stored channel.
UpdateReads(e) ==
    /\ form[e].pc = "open" /\ channelWrites < MaxChannelWrites
    /\ channelWrites' = channelWrites + 1
    /\ \E v \in {form[e].shows, NoSecret} \cup Secrets :
         /\ form' = [form EXCEPT ![e] =
               IF channel.exists THEN [@ EXCEPT !.pc = "update", !.sends = v, !.found = channel.secret]
                                ELSE ClosedForm]
         /\ collided' = (collided \/ \E f \in ChannelEditors \ {e} : form[f].pc = "update")
    /\ UNCHANGED <<channel, typed>>

\* restoreMaskedSecrets: a placeholder stands for what is stored, if anything.
RestoreMaskedSecrets(incoming, found) == IF incoming = Placeholder THEN found ELSE incoming

\* UpdateNotificationChannel: the whole row, unless it is gone by now.
UpdateWrites(e) ==
    /\ form[e].pc = "update"
    /\ channel' = IF channel.exists
                 THEN [channel EXCEPT !.secret = RestoreMaskedSecrets(form[e].sends, form[e].found)]
                 ELSE channel
    /\ typed' = IF channel.exists /\ form[e].sends # Placeholder THEN form[e].sends ELSE typed
    /\ form' = [form EXCEPT ![e] = ClosedForm]
    /\ UNCHANGED <<collided, channelWrites>>

DeleteChannel ==
    /\ channel.exists /\ channelWrites < MaxChannelWrites
    /\ channel' = [exists |-> FALSE, secret |-> NoSecret]
    /\ channelWrites' = channelWrites + 1
    /\ UNCHANGED <<form, typed, collided>>

ChannelFormsNext ==
    \/ \E e \in ChannelEditors : Get(e) \/ UpdateReads(e) \/ UpdateWrites(e)
    \/ DeleteChannel

ChannelFormsSpec == ChannelFormsInit /\ [][ChannelFormsNext]_channelVars

-----------------------------------------------------------------------------
\* The placeholder never becomes the secret, however old the form is that
\* brings it back and whatever happened to the channel meanwhile
\* (restoreMaskedSecrets, Update).
PlaceholderNeverStored == channel.secret # Placeholder

\* Unless two updates overlapped, the stored secret is the one last typed in:
\* saving an old form that shows the placeholder neither loses a secret nor
\* brings an earlier one back (Update reads the stored one at each save).
LastTypedSecretStored == (channel.exists /\ ~collided) => channel.secret = typed

-----------------------------------------------------------------------------
\* What the registry of remote instances and the channel forms hold stays the
\* secret that was entered: a key goes with its URL, the placeholder is never
\* stored, and the last typed secret is (registry.go, notification_channels.go).
SecretsKept ==
    /\ RemoteStoreTypeOK /\ ChannelFormsTypeOK
    /\ KeyStaysWithItsUrl
    /\ PlaceholderNeverStored
    /\ LastTypedSecretStored
=============================================================================
