---------------------------- MODULE Conversation ----------------------------
(***************************************************************************)
(* What outlives a turn of a conversation, and what must not be told to an *)
(* upstream that reads text only.  A client resends its whole history with *)
(* every request.  The engine (src/src/engine.rs) replaces the images a    *)
(* backend cannot see, by numbered placeholders the model may ask about    *)
(* (src/src/vision) or by a remark, and then looks in the replay store     *)
(* (src/src/replay.rs) for the longest known beginning of that history, to *)
(* resume with what the upstream was really told.  Texts are one text; the *)
(* instructions are the same but for the image agent's.                    *)
(***************************************************************************)
EXTENDS Integers, Sequences, SequencesExt, FiniteSetsExt, Picks

CONSTANTS Clients,     \* conversations
          Images,      \* the images that are sent
          Ways,        \* how they are sent
          NoImage,
          Answers,     \* the answers a model gives
          Models,      \* the names a client may ask for
          Served,      \* the resolved model of each name
          Policies,    \* the values of unsupported_image_policy
          CacheSize,   \* image_cache_max_size
          MaxEntries,  \* max_replay_entries
          MaxItems,    \* bounds on the items of each conversation
          MaxLooks     \* bound on the image analyses of a turn

ASSUME ConversationAssumption ==
    /\ Served \in [Models -> Models]
    /\ NoImage \notin Images /\ Ways \subseteq {"url", "file", "other role"}
    /\ CacheSize \in Nat \ {0} /\ MaxEntries \in Nat
    /\ MaxItems \in [Clients -> Nat] /\ MaxLooks \in Nat

VARIABLES policy,   \* config.unsupported_image_policy
          talk,     \* the history each client holds
          ask,     \* the turn each client waits for
          cache,    \* ImageCache: the images of each turn's session
          records    \* ReplayStore: its records in the order of insertion

talkVars == <<policy, talk, ask, cache, records>>

\* The items of a history: a user's text, an image as the client sends it and
\* what the engine makes of it, an answer.  Look is for the upstream only: the
\* number the model asked for and the image that was analysed, if any.
Words == [is |-> "text"]
Image(i, how) == [is |-> "image", of |-> i, how |-> how]
Numbered(n) == [is |-> "numbered", n |-> n]
Omitted == [is |-> "omitted"]
Said(a) == [is |-> "said", a |-> a]
Look(n, i) == [is |-> "look", n |-> n, of |-> i]

\* An image is given by url or by file id, or in a message that is not the
\* user's.
Questions == {Words} \cup {Image(i, how) : i \in Images, how \in Ways}

Raw(item) == item.is = "image"
ByUrl(item) == Raw(item) /\ item.how = "url"
FromUser(item) == item.is # "said" /\ ~(Raw(item) /\ item.how = "other role")

UrlImages(items) == Picked(items, {k \in DOMAIN items : ByUrl(items[k])})

NoTurn == [pc |-> "idle"]

TalkInit ==
    /\ policy \in Policies
    /\ talk = [c \in Clients |-> <<>>]
    /\ ask = [c \in Clients |-> NoTurn]
    /\ cache = [c \in Clients |-> <<>>]
    /\ records = <<>>

-----------------------------------------------------------------------------
(* The images of a request.                                                *)

\* The client resends its history with one more message.
Ask(c) ==
    /\ ask[c].pc = "idle"
    /\ Len(talk[c]) + 2 <= MaxItems[c]
    /\ \E q \in Questions, m \in Models :
          LET asked == Append(talk[c], q)
          IN  ask' = [ask EXCEPT ![c] =
                 [pc |-> "asked", model |-> m, native |-> FALSE,
                  asked |-> asked, input |-> asked, agent |-> FALSE, store |-> TRUE,
                  told |-> <<>>, base |-> 0, looks |-> 0]]
    /\ UNCHANGED <<policy, talk, cache, records>>

\* latest_user_message_has_images.
ShowsImage(items) ==
    LET own == SelectSeq(items, FromUser) IN own # <<>> /\ ByUrl(Last(own))

\* The images in the user's messages are numbered through.
Strip(items) ==
    [k \in DOMAIN items |->
        IF ByUrl(items[k]) THEN Numbered(Len(UrlImages(SubSeq(items, 1, k)))) ELSE items[k]]

\* What is left of a session after its images were stored one by one.
Stored(items) ==
    LET all == UrlImages(items)
    IN  [n \in {k \in DOMAIN all : k > Len(all) - CacheSize} |-> all[n].of]

OneSession(c, items) == cache' = [d \in Clients |-> Stored(items)]

\* The session is this turn's own: its id is made for it.
Session(c, items) == cache' = [cache EXCEPT ![c] = Stored(items)]

ResidualByUrl(item) == ByUrl(item)
Residual(item) == Raw(item)

\* The residual-image pass.  A turn that lost an image to the remark neither
\* looks up nor is recorded.
Swept(t) ==
    LET left == {k \in DOMAIN t.input : Residual(t.input[k])}
    IN  IF left # {} /\ policy = "reject" THEN NoTurn
        ELSE [t EXCEPT !.pc = "prepared", !.store = @ /\ left = {},
                       !.input = [k \in DOMAIN @ |-> IF k \in left THEN Omitted ELSE @[k]]]

\* The backend may see images itself: the request stays as it is.
PassThrough(c) ==
    /\ ask[c].pc = "asked"
    /\ ask' = [ask EXCEPT ![c].pc = "prepared", ![c].native = TRUE]
    /\ UNCHANGED <<policy, talk, cache, records>>

\* It cannot, and the image agent is off, the client forbade tools, or the
\* newest message shows no image.
WithoutAgent(c) ==
    /\ ask[c].pc = "asked"
    /\ ask' = [ask EXCEPT ![c] = Swept(@)]
    /\ UNCHANGED <<policy, talk, cache, records>>

ActivateImageAgent(c) ==
    LET t == ask[c] IN
    /\ t.pc = "asked" /\ ShowsImage(t.asked)
    /\ Session(c, t.asked)
    /\ ask' = [ask EXCEPT ![c] = Swept([t EXCEPT !.agent = TRUE, !.input = Strip(@)])]
    /\ UNCHANGED <<policy, talk, records>>

\* An image of the session grows older than the cache allows: the next call of
\* store or get sweeps it before it looks.
Expires(c) ==
    /\ ask[c].pc = "running"
    /\ \E n \in DOMAIN cache[c] :
          cache' = [cache EXCEPT ![c] = [k \in DOMAIN @ \ {n} |-> @[k]]]
    /\ UNCHANGED <<policy, talk, ask, records>>

-----------------------------------------------------------------------------
(* The replay store.                                                       *)

\* hash_visible_history stands for what it is taken of.
Key(model, agent, items) == <<model, agent, items>>

RecordAt(key) == SelectInSeq(records, LAMBDA r : r.key = key)

\* A record that is inserted again keeps its place.
Insert(record) ==
    LET at == RecordAt(record.key)
        full == MaxEntries > 0 /\ Len(records) >= MaxEntries
    IN  records' = IF at # 0 THEN [records EXCEPT ![at] = record]
                   ELSE Append(IF full THEN Tail(records) ELSE records, record)

\* longest_prefix_match: how long the match is, or 0.
LongestPrefix(t) ==
    Max({0} \cup {n \in DOMAIN t.input :
                     RecordAt(Key(t.model, t.agent, SubSeq(t.input, 1, n))) # 0})

ResumedByMessages(t, n, told) == told \o SubSeq(t.input, Len(told) + 1, Len(t.input))

\* The record stands for the first n items; only the tail is lowered.
Resumed(t, n, told) == told \o SubSeq(t.input, n + 1, Len(t.input))

LookUp(c) ==
    LET t == ask[c]
        n == IF t.store THEN LongestPrefix(t) ELSE 0
        found == records[RecordAt(Key(t.model, t.agent, SubSeq(t.input, 1, n)))].told
        told == IF n = 0 THEN <<>> ELSE found
    IN
    /\ t.pc = "prepared"
    /\ ask' = [ask EXCEPT ![c] = [t EXCEPT !.pc = "running", !.base = Len(told),
                                             !.told = Resumed(t, n, told)]]
    /\ UNCHANGED <<policy, talk, cache, records>>

-----------------------------------------------------------------------------
(* The turn.                                                               *)

\* run_image_analysis: the model asks for a number, which may stand for no
\* image; the vision backend may fail.
Analyze(c) ==
    LET t == ask[c] IN
    /\ t.pc = "running" /\ t.agent /\ t.looks < MaxLooks
    /\ \E n \in DOMAIN t.asked :
          \E i \in {NoImage} \cup {cache[c][k] : k \in DOMAIN cache[c] \cap {n}} :
             ask' = [ask EXCEPT ![c] = [t EXCEPT !.looks = @ + 1,
                                                   !.told = Append(@, Look(n, i))]]
    /\ UNCHANGED <<policy, talk, cache, records>>

\* The record is inserted under the resolved model before the client is told.
Answer(c) ==
    LET t == ask[c] IN
    /\ t.pc = "running"
    /\ \E a \in Answers :
          /\ ask' = [ask EXCEPT ![c] = [t EXCEPT !.pc = "recorded",
                                                   !.told = Append(@, Said(a))]]
          /\ IF t.store
             THEN Insert([key |-> Key(Served[t.model], t.agent,
                                      Append(t.input, Said(a))),
                          told |-> Append(t.told, Said(a)),
                          by |-> c, asked |-> t.model])
             ELSE UNCHANGED records
    /\ UNCHANGED <<policy, talk, cache>>

\* No turn asks for the session of another: what it still holds is out of reach
\* until it expires.
TurnEnds(c) ==
    /\ ask' = [ask EXCEPT ![c] = NoTurn]
    /\ cache' = [cache EXCEPT ![c] = <<>>]
    /\ UNCHANGED <<policy, records>>

TellAnswer(c) ==
    /\ ask[c].pc = "recorded"
    /\ talk' = [talk EXCEPT ![c] = Append(ask[c].asked, Last(ask[c].told))]
    /\ TurnEnds(c)

\* The turn fails or its client leaves, at last before the end is told; the
\* client may ask again.
GiveUp(c) ==
    /\ ask[c].pc \in {"running", "recorded"}
    /\ TurnEnds(c) /\ UNCHANGED talk

\* Every conversation has come to the bound on its items.
TalkIsOver ==
    /\ \A c \in Clients : ask[c].pc = "idle" /\ Len(talk[c]) + 2 > MaxItems[c]
    /\ UNCHANGED talkVars

TalkNext ==
    \/ TalkIsOver
    \/ \E c \in Clients :
        \/ Ask(c) \/ PassThrough(c) \/ WithoutAgent(c) \/ ActivateImageAgent(c)
        \/ Expires(c) \/ LookUp(c)
        \/ Analyze(c) \/ Answer(c) \/ TellAnswer(c) \/ GiveUp(c)

TalkSpec == TalkInit /\ [][TalkNext]_talkVars

-----------------------------------------------------------------------------
(* Properties.                                                             *)

Underway(c) == ask[c].pc \in {"running", "recorded"}

\* What a backend without vision is sent holds no image, neither in the message
\* that is new nor in anything resumed, whoever was told it before and whatever
\* the backend could see then (engine.rs, the residual-image safety pass).
NoImageReachesText ==
    \A c \in Clients : Underway(c) /\ ~ask[c].native =>
        \A k \in DOMAIN ask[c].told : ~Raw(ask[c].told[k])

\* Whatever number the model asks for, the vision backend is shown the image of
\* this request that bears the number, or none, while other turns fill the cache
\* and images grow too old.
LooksAtOwnImages ==
    \A c \in Clients : Underway(c) =>
        LET t == ask[c] IN
        \A k \in DOMAIN t.told :
            k > t.base /\ t.told[k].is = "look" /\ t.told[k].of # NoImage =>
                /\ t.told[k].n <= Len(UrlImages(t.asked))
                /\ t.told[k].of = UrlImages(t.asked)[t.told[k].n].of

HistoryIn(told) == Picked(told, {k \in DOMAIN told : told[k].is # "look"})

\* Resumed or not, the upstream is told the client's whole history once and in
\* order: a record tells exactly the items it stands for, and the tail begins
\* where they end.
HistoryIsToldOnce ==
    \A c \in Clients : Underway(c) =>
        LET told == HistoryIn(ask[c].told)
        IN  IF ask[c].pc = "running" THEN told = ask[c].input
            ELSE Front(told) = ask[c].input

\* A client that continues a conversation the store still holds the record of,
\* under the name it asked for before, is resumed from it.
RecordedTurnsResume ==
    \A c \in Clients : ask[c].pc = "running" /\ ask[c].store =>
        \A k \in DOMAIN records :
            LET r == records[k] IN
            /\ r.by = c /\ r.asked = ask[c].model /\ r.key[2] = ask[c].agent
            /\ IsPrefix(r.key[3], ask[c].input)
            => ask[c].base # 0

=============================================================================
