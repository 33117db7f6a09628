----------------------------- MODULE ReadActions -----------------------------
(***************************************************************************)
(* The actions of bin/helper.py that read chat.db: review, search,         *)
(* chat_history, response_stats and list_chats, with contacts_lookup and   *)
(* the role gate of process_request before them.                           *)
(*                                                                         *)
(* Messages arrive in chat.db while requests are served. Each request gets *)
(* a snapshot, and its answer is judged against that snapshot. A message's *)
(* place in db stands for its date (m.date), so a window of days or hours  *)
(* is a number of messages. Texts are classes: written by a person,        *)
(* automated, or of low signal ("ok", a reaction).                         *)
(***************************************************************************)
EXTENDS PolicyMatch, Naturals, Sequences, FiniteSetsExt

CONSTANTS
  Worlds,        \* what may be fixed before a request is made: see WorldOK
  Contacts,      \* the identifiers of load_contacts
  Person,        \* [Contacts -> names]
  ShortCodes,    \* the identifiers that _SHORT_CODE or "rbm.goog" finds
  ScanLimit,     \* LIST_CHATS_FILTER_SCAN_LIMIT
  MaxContext,    \* MAX_CONTEXT_MESSAGES
  MaxSkip        \* the length of skip_summary

\* A world: the table chat, the user's policies and the role of the bridge, and
\* what hosts ask of it.
WorldOK(w) ==
  /\ DOMAIN w.ident = w.rows        \* chat_identifier
  /\ DOMAIN w.members = w.rows      \* the handles joined to a row
  /\ DOMAIN w.titles = w.rows       \* display_name, "" when there is none
  /\ w.texts \subseteq {"person", "automated", "low"}
  /\ w.policies # {}                \* what the policy files may say
  /\ w.roles # {}                   \* the values of IMESSAGE_BRIDGE_ROLE
  /\ w.limits \cup w.windows \subseteq Nat \ {0}   \* "limit"; windows, in messages
  /\ \A q \in w.queries : q.by \in {"name", "id"}
  \* Ten digits or "@" make a query one by identifier, and each key has them.
  /\ \A q \in w.queries, c \in Contacts : q.by = "name" => q.text # ContactKey(c)
  /\ w.size \in Nat                 \* bound on the number of messages

ASSUME ReadConstants ==
  /\ {ScanLimit, MaxContext, MaxSkip} \subseteq Nat
  /\ \A w \in Worlds : WorldOK(w)

VARIABLES
  world,    \* one of Worlds
  role,     \* bridge_role()
  files,    \* the policy that the user's files express
  db,       \* the messages, by date
  answer    \* the response on disk
vars == <<world, role, files, db, answer>>

NoAnswer == [action |-> "none"]

HostActions == {"review", "search", "chat_history", "response_stats",
                "contacts_lookup"}
ManagerActions == {"contacts_lookup", "list_chats"}

\* For a mutation run: a management bridge serves what any bridge does.
AllowedActionsPooled(r) ==
  CASE r = "host"    -> HostActions
    [] r = "manager" -> HostActions \cup ManagerActions
    [] OTHER         -> {}

AllowedActions(r) == CASE r = "host"    -> HostActions
                       [] r = "manager" -> ManagerActions
                       [] OTHER         -> {}

\* The policy with which main serves requests.
Loaded == IF role = "manager" THEN OpenPolicy ELSE files

Chat(i) == world.ident[db[i].row]

Message == [row : world.rows, sender : UNION {world.members[r] : r \in world.rows} \cup {Nobody},
            mine : BOOLEAN, text : world.texts]

-----------------------------------------------------------------------------
(* Fetching. *)

\* fetch_messages and apply_read_policy: the readable messages of the window
\* among the given ones.
Fetch(window, policy, among) ==
  {i \in DOMAIN db : /\ i + window > Len(db)
                    /\ i \in among
                    /\ IsReadAllowed(Chat(i), db[i].sender, policy)}

\* chat_filter_substr of fetch_messages: the messages that pass it
About(substr) ==
  {i \in DOMAIN db : substr \in Chat(i).holds \cup db[i].sender.holds}

\* resolve_chat_filter: several contacts may have the name; the first of the
\* dictionary is taken, so any of them may be.
Resolve(q, contacts) ==
  LET named == {c \in contacts : q.by = "name" /\ Person[c] = q.text}
  IN  IF named = {} THEN {q.text} ELSE {ContactKey(c) : c \in named}

\* For a mutation run: the limit applied before the order is settled.
Oldest(S, n) == {i \in S : Cardinality({j \in S : j < i}) < n}

\* What a list sorted by date keeps of S when it is cut to n: msgs[-limit:].
Newest(S, n) == {i \in S : Cardinality({j \in S : j > i}) < n}

\* msgs.sort by ts_ns, in either direction.
OldestFirst(S) ==
  CHOOSE s \in [1 .. Cardinality(S) -> S] : \A k, l \in DOMAIN s : k < l => s[k] < s[l]
NewestFirst(S) ==
  CHOOSE s \in [1 .. Cardinality(S) -> S] : \A k, l \in DOMAIN s : k < l => s[k] > s[l]

-----------------------------------------------------------------------------
(* Answers. *)

IsAutomated(i) == Chat(i) \in ShortCodes \/ db[i].text = "automated"

\* For a mutation run: the last message alone decides whether to skip.
EntryByLast(chat, ms) ==
  [chat    |-> chat,
   last    |-> Max(ms),
   count   |-> Cardinality(ms),
   context |-> Newest(ms, MaxContext),
   bucket  |-> IF IsAutomated(Max(ms)) THEN "skip"
               ELSE IF db[Max(ms)].text = "low" THEN "low_priority"
               ELSE "needs_reply"]

\* classify_chats for one chat: ms are its messages, of which the last is theirs.
Entry(chat, ms) ==
  [chat    |-> chat,
   last    |-> Max(ms),
   count   |-> Cardinality(ms),
   context |-> Newest(ms, MaxContext),
   bucket  |-> IF /\ IsAutomated(Max(ms))
                  /\ \A i \in ms : db[i].mine \/ IsAutomated(i)
               THEN "skip"
               ELSE IF db[Max(ms)].text = "low" THEN "low_priority"
               ELSE "needs_reply"]

Classified(msgs) ==
  LET Of(chat) == {i \in msgs : Chat(i) = chat}
  IN  {Entry(c, Of(c)) : c \in {c \in {Chat(i) : i \in msgs} : ~db[Max(Of(c))].mine}}

\* skip_summary shows only the newest of its bucket.
Shown(entries) ==
  {e \in entries :
     e.bucket = "skip" =>
       Cardinality({f \in entries : f.bucket = "skip" /\ f.last > e.last}) < MaxSkip}

\* For a mutation run: a later message of theirs resets the clock.
TurnFromLast(acc, i) ==
  IF ~db[i].mine THEN [acc EXCEPT !.pending = i]
  ELSE IF acc.pending = 0 THEN acc
  ELSE [pending |-> 0, pairs |-> acc.pairs \cup {<<acc.pending, i>>}]

\* One turn of the loop of action_response_stats, for the message i: pending
\* is the first inbound that waits for a reply, 0 when there is none.
Turn(acc, i) ==
  IF ~db[i].mine THEN [acc EXCEPT !.pending = IF @ = 0 THEN i ELSE @]
  ELSE IF acc.pending = 0 THEN acc
  ELSE [pending |-> 0, pairs |-> acc.pairs \cup {<<acc.pending, i>>}]

\* The loop, over the messages in the order of their dates: the pairs
\* <<first inbound, reply>>.
Turns(msgs) ==
  LET loop[n \in Nat] ==
        IF n = 0 THEN [pending |-> 0, pairs |-> {}]
        ELSE IF n \in msgs THEN Turn(loop[n - 1], n) ELSE loop[n - 1]
  IN  loop[Len(db)].pairs

Items(msgs, contacts) ==
  [k \in DOMAIN msgs |->
     [index |-> msgs[k],
      names |-> LookupName(Chat(msgs[k]), db[msgs[k]].sender, contacts)]]

\* The rows with a message in the window, each by the place of its last one:
\* MAX(m.date), the key by which they are ordered and cut.
ActiveRows(window) ==
  LET inside == {i \in DOMAIN db : i + window > Len(db)}
  IN  {i \in inside : \A j \in inside : db[j].row = db[i].row => j <= i}

LabelText(r) ==
  LET named == IF world.ident[r].group THEN UNION {LookupName(p, p, Contacts) : p \in world.members[r]}
               ELSE LookupName(world.ident[r], world.ident[r], Contacts)
  IN  IF world.ident[r].group /\ world.titles[r] # "" THEN {} ELSE {Person[c] : c \in named}

\* The filters of action_list_chats after the query; q = "" is no query.
Wanted(r, groups, q) ==
  /\ world.ident[r] # Nobody
  /\ groups \/ ~world.ident[r].group
  /\ q = "" \/ q \in LabelText(r) \cup {world.titles[r]} \cup world.ident[r].holds
                     \cup UNION {p.holds : p \in world.members[r]}

\* For a mutation run: truncation is judged after the filters only.
ListedChatsLate(window, limit, groups, q) ==
  LET filtered   == q # "" \/ ~groups
      candidates == IF filtered THEN Max({limit + 1, ScanLimit}) ELSE limit + 1
      active     == ActiveRows(window)
      items      == {i \in Newest(active, candidates) : Wanted(db[i].row, groups, q)}
      listed     == NewestFirst(Newest(items, limit))
  IN  [chats     |-> [k \in DOMAIN listed |-> db[listed[k]].row],
       truncated |-> Cardinality(items) > limit]

ListedChats(window, limit, groups, q) ==
  LET filtered   == q # "" \/ ~groups
      candidates == IF filtered THEN Max({limit + 1, ScanLimit}) ELSE limit
      active     == ActiveRows(window)
      items      == {i \in Newest(active, candidates) : Wanted(db[i].row, groups, q)}
      listed     == NewestFirst(Newest(items, limit))
  IN  [chats     |-> [k \in DOMAIN listed |-> db[listed[k]].row],
       truncated |-> Cardinality(items) > limit \/ Cardinality(active) > candidates]

-----------------------------------------------------------------------------
(* The state machine. *)

Init ==
  /\ world \in Worlds
  /\ role \in world.roles
  /\ files \in world.policies
  /\ db = <<>>
  /\ answer = NoAnswer

\* Messages.app commits a message, from a member of the chat or one's own.
Arrive ==
  /\ Len(db) < world.size
  /\ \E m \in Message :
       /\ m.sender \in IF m.mine THEN {Nobody} ELSE world.members[m.row]
       /\ db' = Append(db, m)
  /\ UNCHANGED <<world, role, files, answer>>

\* process_request: an action that the bridge's role permits.
Serve(action) ==
  /\ answer = NoAnswer
  /\ action \in world.asked \cap AllowedActions(role)
  /\ UNCHANGED <<world, role, files, db>>

NotPermitted ==
  /\ answer = NoAnswer
  /\ \E action \in world.asked \ AllowedActions(role) : answer' = [action |-> "refused"]
  /\ UNCHANGED <<world, role, files, db>>

Review ==
  \E w \in world.windows :
    /\ Serve("review")
    /\ answer' = [action |-> "review", seen |-> Len(db), window |-> w,
                  entries |-> Shown(Classified(Fetch(w, Loaded, DOMAIN db)))]

Search ==
  \E w \in world.windows, n \in world.limits, term \in world.texts :
    LET found == Fetch(w, Loaded, {i \in DOMAIN db : db[i].text = term})
    IN  /\ Serve("search")
        /\ answer' = [action |-> "search", seen |-> Len(db), window |-> w,
                      limit |-> n, term |-> term,
                      items |-> Items(NewestFirst(Newest(found, n)), Contacts)]

ChatHistory ==
  LET visible == FilterContacts(Contacts, Loaded)
  IN  \E w \in world.windows, n \in world.limits, q \in world.queries :
        \E substr \in Resolve(q, visible) :
          LET found == Fetch(w, Loaded, About(substr))
          IN  /\ Serve("chat_history")
              /\ answer' = [action |-> "chat_history", seen |-> Len(db), window |-> w,
                            limit |-> n, query |-> q, substr |-> substr,
                            items |-> Items(OldestFirst(Newest(found, n)), visible)]

ResponseStats ==
  \E w \in world.windows, q \in world.queries :
    \E substr \in Resolve(q, FilterContacts(Contacts, Loaded)) :
      LET found == Fetch(w, Loaded, About(substr))
      IN  /\ Serve("response_stats")
          /\ answer' = [action |-> "response_stats", seen |-> Len(db), window |-> w,
                        query |-> q, substr |-> substr, turns |-> Turns(found),
                        inbound |-> Cardinality({i \in found : ~db[i].mine}),
                        outbound |-> Cardinality({i \in found : db[i].mine})]

ContactsLookup ==
  \E q \in {q \in world.queries : q.by = "name"} :
    LET visible == IF role = "manager" THEN Contacts
                   ELSE FilterContacts(Contacts, Loaded)
    IN  /\ Serve("contacts_lookup")
        /\ answer' = [action |-> "contacts_lookup", seen |-> Len(db), query |-> q,
                      matches |-> {c \in visible : Person[c] = q.text}]

ListChats ==
  \E w \in world.windows, n \in world.limits, groups \in BOOLEAN,
     q \in {""} \cup {q.text : q \in world.queries} :
    LET list == ListedChats(w, n, groups, q)
    IN  /\ Serve("list_chats")
        /\ answer' = [action |-> "list_chats", seen |-> Len(db), window |-> w,
                      limit |-> n, groups |-> groups, query |-> q,
                      chats |-> list.chats, truncated |-> list.truncated]

\* The host reads and deletes the response.
Collect ==
  /\ answer # NoAnswer
  /\ answer' = NoAnswer
  /\ UNCHANGED <<world, role, files, db>>

Next == \/ Arrive \/ NotPermitted \/ Collect
        \/ Review \/ Search \/ ChatHistory \/ ResponseStats
        \/ ContactsLookup \/ ListChats

Spec == Init /\ [][Next]_vars

-----------------------------------------------------------------------------
(* Properties. *)

Is(action) == answer.action = action

\* The messages of the window of the answer.
Window == {i \in 1 .. answer.seen : i + answer.window > answer.seen}

Readable(i) == IsReadAllowed(Chat(i), db[i].sender, files)

\* The messages of the items of the answer.
Listed == {answer.items[k].index : k \in DOMAIN answer.items}

\* The messages that the answer shows or counts.
Drawn ==
  CASE Is("review")         -> UNION {e.context : e \in answer.entries}
    [] Is("search")         -> Listed
    [] Is("chat_history")   -> Listed
    [] Is("response_stats") -> UNION {{t[1], t[2]} : t \in answer.turns}
    [] OTHER                -> {}

\* Whatever the role of the bridge and the action asked for, no message is
\* shown or counted that the user's files do not allow. A management bridge
\* loads no policy, so this rests on its actions as much as on the filters
\* of the others.
BodiesUnderPolicy == \A i \in Drawn : Readable(i)

\* A contact that the policy hides is not resolved for the host: neither by
\* its name in contacts_lookup, chat_history or response_stats, nor as the
\* name beside a message of chat_history.
HiddenContactsUnresolved ==
  LET hidden == {c \in Contacts : ~IsReadAllowed(c, c, files)}
  IN  role = "host" =>
        /\ Is("contacts_lookup") => answer.matches \cap hidden = {}
        /\ Is("chat_history") => \A k \in DOMAIN answer.items : answer.items[k].names \cap hidden = {}
        /\ answer.action \in {"chat_history", "response_stats"} =>
             \A c \in hidden : answer.substr = ContactKey(c) =>
               answer.query.by = "id" \/ \E d \in Contacts \ hidden : ContactKey(d) = ContactKey(c)

\* review never loses a person who waits: a readable message of a person,
\* after which the user wrote nothing in that chat, has its chat in one of
\* the two buckets that are shown in full, also when automated messages
\* have come since.
WaitingIsShown ==
  Is("review") =>
    \A i \in Window :
      (/\ Readable(i)
       /\ ~db[i].mine
       /\ ~IsAutomated(i)
       /\ \A j \in Window : j > i /\ Chat(j) = Chat(i) => ~db[j].mine)
      => \E e \in answer.entries : e.chat = Chat(i) /\ e.bucket # "skip"

\* The messages that a search or a chat query is about.
Sought ==
  {i \in Window : /\ Readable(i)
                  /\ IF Is("search") THEN db[i].text = answer.term
                     ELSE i \in About(answer.substr)}

\* A limit drops the oldest: what search and chat_history return are the
\* newest of all that they were asked for, each once, in the promised order.
LimitKeepsTheNewest ==
  answer.action \in {"search", "chat_history"} =>
    /\ DOMAIN answer.items = 1 .. Cardinality(Listed)
    /\ Cardinality(Listed) = Min({answer.limit, Cardinality(Sought)})
    /\ Listed \subseteq Sought
    /\ \A i \in Listed, j \in Sought \ Listed : j < i
    /\ \A k, l \in DOMAIN answer.items : k < l =>
         IF Is("search") THEN answer.items[k].index > answer.items[l].index
         ELSE answer.items[k].index < answer.items[l].index

\* The samples of response_stats are the replies: for each run of messages of
\* theirs that ends in one of the user's, the time from the first of the run,
\* and for no other; so there are never more samples than messages of a side.
SamplesAreReplies ==
  Is("response_stats") =>
    LET NoneOfMine(a, b) == \A k \in Sought : a < k /\ k < b => ~db[k].mine
        First(i) == \A k \in Sought : k < i /\ ~db[k].mine =>
                      ~NoneOfMine(k, i)
    IN  /\ answer.turns = {t \in Sought \X Sought :
                             /\ t[1] < t[2]
                             /\ ~db[t[1]].mine /\ db[t[2]].mine
                             /\ NoneOfMine(t[1], t[2])
                             /\ First(t[1])}
        /\ Cardinality(answer.turns) <= Min({answer.inbound, answer.outbound})
        /\ answer.inbound + answer.outbound = Cardinality(Sought)

\* The rows that a list was asked for, and the place of the last message of each.
Asked == {r \in {db[i].row : i \in Window} : Wanted(r, answer.groups, answer.query)}
Date == [r \in Asked |-> Max({i \in Window : db[i].row = r})]

\* The rows of the chats of the answer.
RowsListed == {answer.chats[k] : k \in DOMAIN answer.chats}

\* list_chats tells the truth about what it leaves out: the chats listed are
\* the most recently active of those that were asked for, at most limit, and
\* when the list is not marked as truncated they are all of them, although
\* the scan behind it is bounded before it is filtered.
ListIsHonest ==
  Is("list_chats") =>
    /\ DOMAIN answer.chats = 1 .. Cardinality(RowsListed)
    /\ Cardinality(RowsListed) <= answer.limit
    /\ RowsListed \subseteq Asked
    /\ \A r \in RowsListed, u \in Asked \ RowsListed : Date[u] < Date[r]
    /\ \A k, l \in DOMAIN answer.chats : k < l => Date[answer.chats[k]] > Date[answer.chats[l]]
    /\ ~answer.truncated => RowsListed = Asked

=============================================================================
