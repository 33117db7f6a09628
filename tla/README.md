# A TLA+ verification of the Grok Bot iMessage bridge

The repository gives an AI host access to iMessage on a Mac: the host writes request files, launchd starts a
helper, and the helper answers with response files. Reading goes through a privacy policy; sending goes through
a preview, a single-use nonce and a native confirmation dialog. Nothing but files carries state from one helper
process to the next, helpers may overlap, and any of them may be killed. This directory models that part of the
system as TLA+ state machines, checks them with TLC and proves the most important guarantees with TLAPS.

## Inventory

| Component | Source | State it keeps | Operations | What makes it correct |
|---|---|---|---|---|
| Send gate | `bin/send_gate.py` | `<bridge>/nonces/`: `.n.json.tmp`, `n.json`, `n.claimed` | mint, consume, reap | a nonce opens the gate once, for its payload, in time; no race or reaper costs a valid send its nonce; nothing stays for ever |
| Helper main, bridge lock | `bin/helper.py` 2169-2287 | `control/lock` (flock), the listing of one run | load policy, reap, lock, list, loop, unlink | one drain at a time; every request is served, again only after a fault |
| Request/response plumbing | `bin/helper.py` 1976-2166 | `control/requests`, `control/responses` | read, dispatch, answer, answer a failure, reap old answers | a request is removed only when answered; an `ok` is true |
| Send path | `bin/helper.py` 1178-1232, 1830-1954 | none of its own: gate, policy files, dialog, Messages.app | send_preview, send | at most one message per nonce, each previewed and clicked |
| Privacy policy | `bin/helper.py` 736-935 | `blocked_chats.txt`, `allowed_chats.txt`, `read_policy.txt`, `send_policy.json` | load, match, decide | what is blocked is neither read nor sent; fail closed |
| Read actions | `bin/helper.py` 1326-1820 | none: a snapshot per request | review, search, chat_history, response_stats, list_chats, contacts_lookup, status | nothing outside the policy or the window; honest truncation |
| Snapshot of chat.db | `bin/helper.py` 1238-1316 | an in-memory database | copy within a size limit | bounded memory, closed on every path |
| Log | `bin/helper.py` 351-415 | `control/log.txt`, `.1` to `.3` | log, rotate | bounded; loses only the oldest lines |
| Runtime file access | `bin/helper.py` 245-350 | none | anchored opens with owner and mode checks | never follows a link |
| Decoding, redaction, contacts | `bin/helper.py` 417-735, 937-1235 | none | text processing and validation | total functions |
| Signed wrapper | `bin/imessage_helper.c` | none | checks, then exec of Python | launches only what passes every check, names the fault otherwise, agrees with the helper's own checks |
| Confirmation dialog | `bin/confirm_imessage_send.m` | none | show, answer by exit status | Send only on a click |
| Host and user | `SKILL.md` | polls, answers it holds | post, poll, read and delete, give up; edit policy files | environment |
| launchd agent | the plist template | a pending event per job | start the helper | environment |
| Allowlist tool | `tools/configure_allowlist.py` | `allowed_chats.txt` | list, choose, write back | at most one edit undone per overlap; entries are lost as a whole only by a death in the middle, or an overlap |
| Installers, migration | `install*.sh`, `uninstall*.sh`, `tools/*` | installed tree, agent | copy, load, unload | re-runnable after a failure |
| Doctor, version and parity checks, CI | `tools/`, `.github/` | none | reports | - |

The components meet in files. The host and the helper share `control/requests` and `control/responses`; helpers
share those, `nonces/`, the lock and the log with each other; the user edits the policy files at any time; the
dialog and `osascript` are child processes with timeouts (70 s and 15 s). What is hard here: several helpers on
one bridge, of which all but the reapers and the log are serialised by the lock; a kill between any two system
calls; writes, unlinks and starts that fail; a response that does not arrive before the host stops polling; time,
read in whole seconds and in fractions; policy read at one moment and used at another. `PROJECT.json` lists these
hazards one by one, at the line where each bites, with the properties that watch it.

## Modules

| Module | Models | Proved in |
|---|---|---|
| `NonceLedger` | the abstract specification of the gate | |
| `Mailbox` | the abstract specification of the requests and responses: what a host may rely on | |
| `SendGate` | `bin/send_gate.py`, one action per system call | `SendGateProofs`, `LedgerProofs` (the refinement) |
| `Bridge` | host, launchd, helper main, request processing and the send path, over `NonceLedger` | `BridgeProofs` (with the refinements of the ledger and of the mailbox) |
| `Answers` | the request and response files, one action per system call | `AnswersProofs` (with the refinement of the mailbox) |
| `LogRotation` | the log and its backups, one action per system call | `LogProofs` |
| `PolicyMatch` | which entries match, what a policy allows, contacts (pure operators) | |
| `ReadActions` | the actions that read chat.db, and the role gate before them, over `PolicyMatch` | `ReadProofs` |
| `Launch` | the wrapper's checks, the exec, the import and the loading of the policy, step by step, in every build, over `PolicyMatch` | `LaunchProofs` |
| `Allowlist` | the allowlist tool and the installer's set-up of the list, one action per command, over `PolicyMatch` | `AllowlistProofs` |
| `MC...` | instances of the module whose name follows, one `.cfg` per run | |

`Bridge` is where the components meet: a request from its posting to the message or the answer. It is coarse where
another module is fine. It needs the gate at the grain of a claim and a verdict, which is `NonceLedger`; `SendGate`
shows, and `LedgerProofs` proves, that the files, renames and reapers give exactly that. It writes an answer, and
reaps one, in one step; `Answers` takes the same code system call by system call. That the two are views of one
thing is `Mailbox`, which both implement. `LogRotation` is apart because
helpers log before they hold the lock. `ReadActions` and `Launch` look at two further sides of the same helper: what
it answers to one read, for a given policy; and which policy it comes to have, when the files it rests on change
while it starts. `Allowlist` is how one of those files changes. They meet in `PolicyMatch`, the matching of
identifiers.

### SendGate

State: `tmp`, `json` and `claimed` are the three names a nonce's record may have, each a record of payload hash
(a model value per payload: the hash is assumed to be injective), `expires_at` and modification time, or `Absent`;
`damaged` are the names whose content the disk has lost; `job` is each process's place in its code and its live
local variables; `grant` and `passes` are history. Each action is what happens between two points at which another
process can observe or be observed:

| Code | Actions |
|---|---|
| `mint_send_nonce` | `MintDraw` (nonce, record), `MintWrite` (temp file), `MintPublish` (`os.replace`), `MintFail` (the `finally` clause) |
| `consume_send_nonce` | `Claim` (`os.rename`), `ReadClaimed`, `Judge` (expiry, payload), `UnlinkClaimed` |
| `reap_expired_nonces` | `ReapStart` (the clock, once), `ReapList`, then per name `ReapSkip`, `ReapClaim`, `ReapOpen`/`ReapRead`, and `ReapUnlink` by name, `ReapDone` |
| environment | `Tick`, `Crash`, `Damage` |

Time is in ticks, `Res` per second: `expires_at` and both readings of the clock are truncated to seconds,
`st_mtime` is not. A rename keeps the modification time, which is what the reaper judges a claim by. A pass is
counted at the verdict, where it is decided.

Left out: the checks of owner, mode, type and size (folded into "the record can be read"); nonce syntax; the
two-second granularity of some file systems. Assumed: nonces are drawn once (`secrets.token_urlsafe(24)`), the
clock does not go back, rename and unlink are atomic.

### Bridge

State: the ledger of nonces; request and response files; what the host waits for and has read; launchd's pending
event per job; the lock; per helper its place, the rest of its listing, the request in hand, the answer to write
and the attempts left for it, and the blocklist as loaded at the start; the two policy files; ghosts that count
clicks, messages and services.

| Code | Actions |
|---|---|
| host (`SKILL.md`), user | `Post`, `Collect`, `GiveUp`; `Block`, `DisableSend` |
| `main` | `Start`, `StartFails`, `ReapResponse`, `ReapNonce`, `ReapDone`, `List`, `TakeRequest`, `Unlink`, `UnlinkFails`, `Finish` |
| `_acquire_bridge_lock` | `Acquire`, `LockTimeout` |
| `process_request`, `write_response`, `_bad_request` | `Refuse`, `Read`, `WriteResponse`, `WriteFails` |
| `action_send_preview` | `Preview`, `Mint`, `MintNoMore`, `Issue`, `MintFails` |
| `action_send` | `SendRefused`, `SendClaim`, `GatePasses`, `GateRefuses`, `Approve`, `Cancel`, `Osascript` |

An answer that cannot be written is retried the way the code does: a success is replaced by an error in
`process_request`, that one by another in `main`, after which the request is removed all the same. A helper that
is killed drops its lock, and takes the nonce in hand with it.

Abstracted: durations are nondeterminism (a wait for the lock may time out whenever the lock is held; a dialog may
be answered whenever it is up), only nonces read the clock. Requests are taken in any order, a superset of the
sorted order. A response is reaped only when nobody polls for it and its writer has moved on: an hour has gone by.
`Workers` are launchd jobs that watch the same directory: one per label, and more when an old agent is still
loaded or a helper is started by hand. The host cannot guess a nonce it was not told.

### Mailbox

What a host may rely on of `control/requests` and `control/responses`, whoever serves them: one request at a time is
served (`Take`); while it is, its file is there; it is answered once (`Answer`) or, after a fault, not at all
(`GiveUp`); and only then is its file removed (`Remove`). A kill or an unlink that fails lets it go unserved
(`Lapse`). So no answer appears for a request that is gone, and none is repeated without a `Lapse`. `Bridge` and
`Answers` read its state off their own: what is served is in the hand of whoever holds the lock (`Served`), and it is
closed when only the unlink is left (`Closed`). The reapers, which run without the lock, are a `Clear`, as is a host
that reads its answer; a helper that waits, times out or is killed before the lock is nothing or a `Fault`. The lock,
the listing, the temporary file, the two attempts after a failed one, the gate and the dialog are all inside a step
of the mailbox or beside it. A second helper that drained without the lock would answer a request that the mailbox
does not serve.

### PolicyMatch and ReadActions

An identifier (a chat, a person, an entry of a list) is a record of what the code can tell of it: its text, its last
ten digits if it has as many, whether it has an "@" or starts with "chat", and which query texts it contains. State
of `ReadActions`: the role, the policy of the user's files, the messages by date, and the answer, which keeps the
length of `db` at its snapshot so that it can be judged against it. Messages are sets of positions until an answer
puts them in order: a cut list is `Newest` of a set, and a sort is the one enumeration of the set in the order of the
dates. Only the loop of `response_stats` is a recursion, because there the order of the visits is the point.

| Code | Definitions |
|---|---|
| `_matches_list`, `is_blocked`, `is_read_allowed`, `filter_contacts`, `lookup_name`, `_normalize_handle` | `MatchesList`, `IsBlocked`, `IsReadAllowed`, `FilterContacts`, `LookupName`, `ContactKey` |
| `process_request`, `allowed_actions`, `load_privacy_policy` by role | `Serve`, `NotPermitted`, `AllowedActions`, `Loaded` |
| `fetch_messages`, `apply_read_policy`, `resolve_chat_filter` | `Fetch`, `About`, `Resolve` |
| `action_review`, `classify_chats` | `Review`, `Classified`, `Entry`, `Shown` |
| `action_search`, `action_chat_history` | `Search`, `ChatHistory`, `Items`, `OldestFirst`, `NewestFirst`, `Newest` |
| `action_response_stats` | `ResponseStats`, `Turns`, and `Turn` for one pass of the loop |
| `action_contacts_lookup` | `ContactsLookup` |
| `action_list_chats` | `ListChats`, `ActiveRows`, `Wanted`, `ListedChats` |
| Messages.app, the host | `Arrive`, `Collect` |

Abstracted: a position stands for a date, so a window of days is a number of messages, and no two dates are equal;
a text is of one of three classes, with the classification itself (regular expressions) left out; a search term is
a class; names are compared as a whole, where the code looks for the query in them; a query that is a name is not at
the same time the key of a contact, which has ten digits or an "@" (`WorldOK`). One's own messages have no
sender. Left out: validation of parameters, redaction, the labels of entries, the caps on texts and on the matches of
contacts_lookup (25), and `status`.

### Launch

One step per check of the wrapper, then the exec; Python opens `helper.py`; the helper looks at `send_gate.py`, and
then runs it; it looks at each policy file, and then reads it, one file after another. Each look and each read
resolves the path again, and any file may change between two steps, a bounded number of times. An artefact is what
`lstat` and a read tell of it: file, link or directory (or nothing); owner root, user or other; access to group and
world; the executable bit; content. `closed` is `private` where neither the mode nor an ACL lets the user read the
file. The wrapper and the helper's own checks take it like `private`, because they look and do not open; the read
then raises. So a list of root's that the hardened installer has set up and one that lacks the ACL differ, and so do
a `send_gate.py` of root's with mode 0644 and one with 0600.

| Code | Definitions |
|---|---|
| `imessage_helper.c`, `main` | `Begin`, `Check` over `Checks` and `Verdict`, `Vouch`, `TooLong`, `Exec`, `Environment` |
| `validate_file`, `validate_ownership`, `validate_code_requirement` | `ValidateFile`, `ValidateOwnership`, `bundle.seals` |
| `helper.py`: module level, `_load_send_gate` | `ProductMode`, `BridgeRole`, `ReadHelper`, `CheckSendGate` over `SendGateRejected`, `ReadSendGate` |
| `load_privacy_policy`, `_load_list`: the order of the files | `LoadPolicy`, `LoadOrder` |
| the same: `lstat` and the checks | `CheckPolicyFile` over `Rejected` (`ModeRejected`, `ListRejected`) |
| the same: `read_text`, defaults, exceptions | `ReadPolicyFile` over `Value` (`ReadMode`, `LoadList`) and `Raises` |
| `is_send_policy_enabled` | `SendEnabled` |

Three variables are history, of one load of the policy. `slipped` has the files that passed the look and were
exchanged, before the read, for something that would not have passed. `hidden` has the identifiers that the files,
taken together, have hidden at every moment since the load began. `loosened` says that an entry was taken off the
blocklist or put on the allowlist meanwhile, as the helper would read them.

The icon of a product is looked for before the checks and checked after three of them, which is why `icon` is a
variable. The four builds are the plain one (`diy`), the hardened one, and a product given the id of a host or of a
manager. Left out: usage errors (exit 8), discovery of the bundle and of the home directory (exit 9), and the
opening of the bridge directories.

### Answers

State: per request its file (`valid`, or `garbled` while a careless client writes it in place); per name of a
response its file, with the request it answers and when it was born; `litter`, the temporary files of killed
helpers; whether the directory passes its check; the lock; per helper its place and local variables. An id is a
sequence of tokens, because the name of a response is made by deleting every `request-` from the name of the
request: `Stem`.

| Code | Actions |
|---|---|
| `reap_expired_responses` | `Start` (the clock and the listing, once), per name `Judge` (its age), `Reap` or `ReapFails` (the unlink), `ReapDone` |
| `main`, `_acquire_bridge_lock` | `Acquire`, `LockTimeout`, `Take`, `Finish`, `Unlink`, `UnlinkFails` |
| `_read_request_text`, `process_request` up to the action | `ReadRequest`, `RereadRequest` |
| `write_response` | `WriteTemp`, `Publish`, `WriteFails` |
| clients, disk, clock | `Post`, `Complete`, `Collect`, `Tick`, `Break`, `Repair`, `Crash` |

Left out: the size limits, and what an action answers, which is `Bridge`'s. As there, each failure of a write is
followed by the next attempt with an error answer, and the request is removed after the last.

### LogRotation

State: which file each name leads to, the lines of each file by their place in time, and per helper its place in
`log`, with the file it has opened. The limit of 1 MiB is `Full` lines. History: `overlaps` counts the calls that were
begun during another, and `since` keeps the counts as they were when the first call after a race found all quiet. What
a log has lost is judged by the lines written since (`Recent`), the kills and the races since: counted from the very
beginning, two races would excuse any loss for ever, and that the log recovers would be said nowhere.

| Code | Actions |
|---|---|
| `log` | `Call`, `Open` (open or create), `Write`, `Abort` (every exception is swallowed, and the line with it) |
| `_rotate_log` | `Size`, `Oldest` and `Drop`, then per backup `Source` (is it there) and `Move`, and the last `Move` of `log.txt` itself |
| kill | `Crash` |

### Allowlist

State: the list (its entries and whether the ACL lets the user read it), and per terminal the place in its command
with the list in memory. Ghosts, which no guard reads: `wanted` is what all edits add up to and `removed` what was
removed and not added since, in the order in which the files were replaced, whatever became of the list; `overlaps`
counts the commands begun during another, `holes` those that died when the old list was gone and no new one there,
and `emptied` the installations of the template over a list that should have had entries.

| Code | Actions |
|---|---|
| `configure_allowlist.py`, `main`, `read_entries`, `validate_entry` | `EditBegins` over `Edited` and `Valid` |
| `install_entries`: `sudo install`, `chmod -N`, `chmod +a` | `InstallOld` (the old file goes), `InstallNew`, `Verify`, `Clear`, `Grant`, `Ends` |
| `install-hardened.sh`, the set-up of the list | `InstallBegins`, then the same commands |
| a command that fails or is killed | `Fails` |

Left out: `list`, which changes nothing; the refusal of symbolic links, which comes before any change; case, which
neither the tool nor the helper minds; comments in the file.

## What the runs check

| Run | Properties | Bounds | Result |
|---|---|---|---|
| `gate` | `AtMostOnePass`, `RefusalHasACause`, `PassIsJustified`, `LiveLeavesByClaim`, the refinement `ImplementsLedger`, `StaleFilesRemoved` (liveness), the inductive `GateInv` | 2 processes in any roles, 1 nonce, 2 payloads, 1 kill, 1 record the disk may lose, half seconds, TTL 2 s, grace 1 s, clock past every limit | holds |
| `bridge_send` | `SendChain`, `OkIsTrue`, `MessageWasPreviewed` | 1 helper, 3 requests (a preview and two sends, two previews and a send, ...), 1 nonce that may expire, 2 payloads, 1 kill, sending disabled at any time | holds |
| `bridge_race` | `ServedOncePerFault`, `BlockedBeforeRunMeansUnsent`, `RemovedOnlyAnswered`, the refinement `ImplementsMailbox` | 2 helpers, 2 requests, 1 nonce, 1 kill, 2 failures, the recipient blocked at any time | holds |
| `bridge_live` | `Drained` (liveness) | 2 helpers, 2 requests of any kind, no faults | holds |
| `bridge_blocked` | `BlockedMeansUnsent` | 1 helper, 2 requests | violated |
| `answers_files` | `ReapLeavesNoneOld`, `LitterOnlyFromKills`, `LostOnlyByFaults`, `ReapedOnlyStale`, `OverwritesHaveACause`, the refinement `ImplementsMailbox` | 2 helpers, 3 requests of which two share a response name and one has none left, TTL 0, clock to 1, 1 kill, 1 failure, the directory unsafe once | holds |
| `log_race` | `FilesBounded`, `DroppedOnlyByRace`, `OldestFirst`, `LossesBounded` | 2 helpers, 3 backups, 2 lines per file, 10 calls, 1 kill | holds |
| `reads` | `WaitingIsShown`, `BodiesUnderPolicy`, `HiddenContactsUnresolved`, `LimitKeepsTheNewest`, `SamplesAreReplies`, `ListIsHonest` | two worlds, below; all roles, limits 1 and 2 | holds |
| `launch_chain` | `ExitNamesAFault`, `AcceptedByBoth`, `HiddenStaysHidden`, `OnlyRootGrants`, `DamageNeverOpens` | 4 builds, 1 change of any code file, policy file or the bundle, or 2 edits of the policy files | holds |
| `launch_listed` | `ListedIsHidden` | 1 product, 1 change of the blocklist | violated |
| `allowlist_edit` | `ListAddsUp`, `EmptiedHasACause`, `FewComeBack`, `ClosedHasACause` | 2 terminals, 4 entries (one number in two notations, an address, an invalid code), 6 commands, 2 faults | holds |
| `allowlist_removed` | `RemovedIsHidden` | 1 terminal, 3 commands, no fault | violated |

One nonce is enough for the races, because no code relates two nonces: processes interact only through the files
of one. Two processes are needed for every race the gate has. The bounds `LastMint` and `MaxNow` are chosen so that a
nonce is minted in the middle of a second and the clock then passes its expiry, the TTL of its claim and the grace
period. `MaxCrashes`, `MaxErrors` and `MaxFaults` count faults; each single fault at each point is covered, with the
retries that follow it; `bridge_send` has no failures of writes, which `bridge_race` has and the theorem for
`OkIsTrue` covers. Where a run is small, the theorems below remove its bounds: type invariants and the inductive
invariants of `Bridge`, `Answers`, `LogRotation`, `Launch`, `Allowlist` and `ReadActions` are in no run, because they
are proved, and so are `DrainsSerialized`, without which `ImplementsMailbox` would fail, `DisabledMeansUnsent` and
`ValidateOnlyPredicts`. Symmetry is used only in runs
without liveness properties. In `answers_files` a response is either of the reaper's own tick, or
newer, and must stay, or one tick older and must go: both sides of the bound, which a longer clock only repeats.

`reads` checks two worlds. In one, a chat, a group and a short code carry every sequence of 3 messages of 3 classes
under 4 policies with windows of 2 and 3; the group has the digits of a person. Three messages are the fewest that a
question, an automated message and an answer need, and more than each limit. In the other, `list_chats` goes over 4
rows (two of one identifier, one without any), one message for each, with a scan of 2 rows, because the scan must
leave some out. `MaxContext`, `MaxSkip` and `ScanLimit` stand for 8, 20 and 500, and are small so that each is
exceeded. In `log_race` ten calls fill all three backups and lose the oldest, and are enough for a second race, or for losses
after the log has recovered from one. In `launch_chain` one change
suffices for what a single fault does at any point of a launch; a change gives a file any owner, mode, kind and
content at once. An edit is a smaller change, of `read_policy`, `blocklist` or `allowlist`: it leaves no file, the
user's file, a private one of root's, or one that others can write, with any content. There are two of them, because
a mixture takes two, one behind what has been read and one ahead of it. An edit takes one of `MaxChanges`, any other
change takes them all (`Cost`).

`CHECK_DEADLOCK FALSE` is in the runs whose system comes to rest: every call, command or request of the bound has
been spent, and nothing happens any more.

### What does not hold

The violations are disagreements between the documents and the code:

- `README.md:235` says that the blocklist always takes precedence, including for sends. It is loaded before the
  wait for the lock and used for the whole drain, so a send requested after the block may go out (after the user
  has clicked Send). `BlockedBeforeRunMeansUnsent` is what does hold. The send policy, read per request, has no
  such gap (`DisabledMeansUnsent`, a theorem).
- `SKILL.md:407` says that the blocklist always removes what it lists. In a product, a blocklist that fails the
  check of owner and mode counts as empty, while the mode and the allowlist fail closed. `DamageNeverOpens` is what
  does hold for the other files.
- `contacts/allowed_chats.txt.template:8` says that phone numbers match by their last ten digits. The tool removes an
  entry by its text and reports "remove complete", so a number that was added in one notation and removed in another
  stays readable. `ListAddsUp` is what does hold: the list is what the edits, taken by their text, add up to, but
  for one edit per overlap.

Further disagreements and limits, which the models show and no run states as a violation:

- `SKILL.md:308` and `docs/PROTOCOL.md:559` say that a nonce is consumed on the first send attempt and deleted on
  any validation failure. A send refused by the policy, by validation or by the blocklist never reaches the gate
  (`Bridge!SendRefused`), and its nonce stays live.
- `docs/PROTOCOL.md:734` and `:742` and `SECURITY.md:243` say that responses are reaped after an hour and the files
  of `nonces/` on every helper run. The temporary file of a helper that was killed before its rename has a hidden
  name, which both reapers pass over. `LitterOnlyFromKills` bounds it: one file per kill, none per failure.
- `docs/PROTOCOL.md:112` asks only that ids be unique, and `:67` that the response be named after the id. Ids that
  differ by `request-` have one response name, and a request file named `request-.json` has none, so it goes
  unanswered against `:114`. `OverwritesHaveACause` and `LostOnlyByFaults` name these as their only such causes.
- A reaper reads the age of a response before it unlinks the name. A fresh response put there in between goes with
  it, but only where one was put there before (`ReapedOnlyStale`).
- `README.md:350` says that logs rotate at 1 MiB with three backups. Overlapping rotations may write one
  backup over another, leave gaps, drop a line per overlap and disturb the order of the backups; without an overlap
  only the oldest lines go, and a kill costs at most one backup (`OldestFirst`, `DroppedOnlyByRace`). An overlap may
  cost `Backups \div 2 + 1` of them (`LossesBounded`): two rotations in step go ahead of each other in turn. When the
  calls of a race are over, the lines written from then on are kept as well as ever (`OldestFirst`, again).
- Two commands of the allowlist tool that overlap may undo each other, at most one edit per overlap (`ListAddsUp`,
  and `FewComeBack` for the removals, bounds that are reached). The list as a whole may be lost: a command that is
  killed between the removal of the old file and the new one leaves none, the tool then ends with an error, and the
  installer takes the missing list for a first installation and puts the empty template there
  (`EmptiedHasACause`). After a command that failed between the installation and the ACL neither
  the helper nor the tool can read the list any more; only the installer repairs it (`ClosedHasACause`). An
  installer that looks while another command is between the old file and the new one puts the template over the
  list as well.
- The wrapper opens none of the files it checks. A `helper.py` or `send_gate.py` of root's that the user cannot read
  passes it, and also the check at `bin/helper.py:176`, and then every run dies of a `PermissionError` at the exec
  of Python or at `bin/helper.py:191`; a policy file that cannot be read, or a mode file that is not UTF-8, does
  the same at `:770` or `:811`. `AcceptedByBoth` names these as the only causes (`CannotBeRead`).
- `_load_list` looks at a path and then reads it (`bin/helper.py:744`, `:770`), so a list that is exchanged between
  the two calls is read although it would fail the check, and one that is removed there stops the helper. This is
  the one gap in `OnlyRootGrants`; every earlier exchange is noticed. The exchange takes write
  access to the directory, which in a hardened installation is root's (`install-hardened.sh:131`).
- The policy files are not read as one. A helper that has read the mode as open, and then reads a blocklist that the
  user emptied because the mode is now closed, shows everything, which neither the old files nor the new ones do.
  `HiddenStaysHidden` says that this takes a list that gets looser during the load, or an exchange as above: in any
  other order and number of edits, what was hidden all along is hidden.
- `docs/PROTOCOL.md:600` says that addresses match exactly. One with ten digits also matches the phone number
  (`EntryMatches`).
- `docs/PROTOCOL.md:617` says that in allowlist mode reads return only handles in the allowlist. The label of an
  unnamed group shows its other members.
- `bin/helper.py:1446` skips what is "already replied". In allowlist mode the user's replies in a group that is not
  listed itself are filtered away before, and the group is shown as waiting.
- `response_stats` pairs messages across chats: a message in a group is "answered" by the next one that the user
  writes to that contact alone. `SamplesAreReplies` is what does hold, over all messages of the filter.

### Fairness

`SendGate!FairSpec`: the clock advances; a process that has begun an operation goes on with it (`WF` on its steps);
and helpers keep being started, each of which reaps first (`SF` on `ReapStart`, because a process may always be
busy with something else when it could have reaped). `Bridge!FairSpec`: launchd starts a job whose event is
pending, and a helper goes on, because the lock wait, the dialog, `osascript` and the SQLite backup all have
timeouts. Nothing is assumed of the host or the user. The other modules state safety only and assume no
fairness. launchd is assumed to keep an event that arrives while its
job runs; without that, a request posted between the listing and the exit would wait for the next one.

## What is proved

TLAPS proves the following for every value of the constants: any sets of processes, requests, nonces, payloads,
terminals and identifiers, any limits, and any number of faults. The assumptions are that numbers are naturals and
the values for "nothing" are apart from the rest (`GateConstants`, `BridgeConstants`, `AnswersConstants`,
`AbsentApart`, `LogConstants`, `AllowConstants`, `MaxChangesNat`, `ReadConstants`), with `Res` above zero in the gate, finite sets of
helpers and terminals in the log and the allowlist (where they are counted), no two entries of the same text in the
allowlist, the four known builds in the launch (`BuildsKnown`), and for the reads the shape of a database and of the
questions asked of it (`WorldOK`). TLC evaluates each in a run. Each invariant has
a lemma for its preservation, with one step per action; what most actions leave alone is in a lemma of its own.

`SendGateProofs`:

- `GateInvHolds`: `GateInv` is an invariant. `AtMostOnePass` and `RefusalHasACause` are not inductive: that a nonce
  passes once rests on its being in one hand at a time (`TokenInv`: drawn, minted by one process, issued, claimed by
  one send, spent), that a refusal has a cause on every copy of the record saying what was granted
  (`RecordsAreFaithful`), and on no reaper having removed a claim in time (`ClaimsLastTheTTL`), which in turn rests
  on what each reaper has established about the file it is going to unlink (`ReapersAreRight`).
- `GateTypeCorrect`, `OnePass`, `RefusalsHaveCauses` follow; `PassesAreJustified` and `LiveNoncesLeaveByClaim` are
  action properties proved from the invariant and from the lemmas on truncated time: `OlderIsExpired` (a file older
  than the TTL has expired), `ExpiredIsLate` (expired in whole seconds means that the full TTL has gone by) and
  `UnexpiredIsSoon` (not expired means less than one second more than the TTL).

`LedgerProofs`: `GateImplementsLedger`, the refinement of `NonceLedger` by `SendGate`. The status of a nonce is read
off its files and off whoever has it in hand; the invariant makes that reading unambiguous. `SameStatus` covers the
steps that stutter, `StatusBecomes` and `OthersKeepTheirs` those that move one nonce, and there is one lemma per
kind of step: a mint, a claim, a verdict, a reaper's unlink, a kill, a tick, a damage.

`BridgeProofs`: `BridgeInvHolds`, and from it `OneDrain`, `ServedAgainOnlyAfterFaults`, `ChainHolds`, `AnswersTrue`,
`DisabledUnsent`, `BlockedUnsent`, and the action properties `OnlyPreviewedGoesOut` and `GoneOnlyAnswered`.
`BridgeInv` adds to the properties what a helper has in hand at each place (`HandsOK`: only the holder of the lock
drains, so that what it has listed is still there), that an answer is true from the moment it is decided and not
only when it is written (`AnswersOK`), that the send under way is one click or one pass ahead of its message
(`ChainOK`), what a helper that has passed a check of the policy knows (`PolicyOK`), and that services and failed
writes are paid for by faults (`ServedOK`, `UnlinkOK`). `BridgeImplementsLedger` is the second refinement of
`NonceLedger`: with several helpers on the bridge, every nonce still takes only the ledger's steps (`GateSteps`), a kill
being the end of the nonce in hand, and what is proved of the ledger for one nonce holds of the composition.
`BridgeImplementsMailbox` is the refinement of `Mailbox`, with a lemma for each of its steps (`BoxTake`, `BoxAnswer`,
`BoxWriteFails`, `BoxUnlink`, `BoxCrash`, `BoxClear`, `BoxPost`) and for what it does not see (`BoxWorks`, `BoxRuns`,
`BoxOthers`). `HandIs` is what it rests on: a helper with a request in hand holds the lock, so its request is the one
that the mailbox serves, and `HandAside` says that a helper without one changes nothing of that.

`AnswersProofs`: `AnswersInvHolds`, and from it `LitterBounded`, `AnsweredOrExcused`, `ReaperDoesItsWork`, and the
action properties `OnlyStaleGoes` and `OverwritesExplained`. The core is `AgeOK`: what a reaper has passed over is
too young for its clock, whoever publishes meanwhile, because a response is born no earlier than the reaper's clock
was read; and `TriesOK` and `OnceOK` charge every lost attempt and every repeated answer to a fault. `Stem` stays
closed in the proofs: they hold whatever the conversion of names does. `AnswersImplementMailbox` is the second
refinement of `Mailbox`, along the same lemmas; that a `GiveUp` has a fault behind it is `TriesOK`, and that a reaper
is a `Clear`, or nothing when somebody was faster, is `BoxClear`.

`LogProofs`: `LogInvHolds`, and from it `DropsAreOverlaps` and `FilesStayBounded`. The invariant charges every call
that goes on to an overlap, except one that is not doomed (`OverlapsPay`): of the helpers in a rotation that will
raise, one less than all has been overlapped. `RoomLeft` reserves a line in a file for each helper that is going to
write to it. `LossesAreOldest` has an invariant of its own, `OrderInv`, for the time without a
race. That the backups stay in order (`InOrder`) needs that a lone helper moves a backup only to a name that is free,
also after a kill or a race has left gaps (`AloneOK`). How much is lost needs `AgeOK`: a recent line in the backup n is
at least as old as n - 1 full backups and the present `log.txt` make it, except for one backup per kill; while a
rotation is on its way, the backups that it has moved are ahead by one, which is the one that a kill at this moment
will cost. So a backup that is dropped holds lines that had no room, and the lost lines are few because they are the
first (`FirstFew`). When stock is taken after a race (`TakesStock`), no line is recent and nobody is in a rotation, so
that all of this begins anew whatever the race has left (`StockTaken`).

`LossesStayBounded` follows a race of two. `Left(w)` is the name that the rotation of w has freed; with u at a and v
ahead of it at b, `More(a, b, file)` is how many backups the two can still cost, and `RaceOK` says that what is lost
already (`Young`, the lost lines that had room) and `More` together stay within the bound. The lemmas on `More` are the
argument. The one ahead finds the name before it free, so it costs nothing, and does not raise `More` (`MoreAhead`).
The one behind pays with one of `More` for each backup that it writes over (`MoreBehind`). One that is over leaves the
other no more than both had (`MoreOver`), and a call that begins during another has at most the bound (`MoreAtFirst`).
If neither has begun, the first to drop the last backup drops old lines (`NotBegun`). `StepKinds` sorts the steps of
all places in the code into these three, and `RaceOnStep` puts them together. That a file that is lost holds at most
`Full` recent lines, although the other helper may be about to write to it, is `FitOK`, and `CalmOK` for a helper
alone. The bound holds from the second call of a race to the next call during another, and that it is reached in the
run shows that `More` counts no backup too many there.

`ReadProofs`: `ReadInvariant`, with one lemma per action, and from it `BodiesStayUnderPolicy`,
`HiddenContactsStayUnresolved`, `WhoWaitsIsShown`, `LimitsKeepTheNewest`, `LoopFindsTheReplies` and `ListsAreHonest`.
An answer is judged against the snapshot that it was made from, so each property has to be shown twice: when the
answer is made, from what the operators compute, and for every message that arrives afterwards (`ArriveStep`), from
`AnswersStayInTheirWindow`: what an answer draws on lies within the window it saw. The lemmas on operators hold for
databases of any length, so they need induction. The library's induction theorems cannot be used, because they take
an operator as a parameter; but a set of numbers says what a predicate says, and `Induction` is that principle, from
the well-foundedness of the order on the naturals. On it rest `GreatestNumber` (`Max` of a bounded set is one),
`Recursion` (a recursive function satisfies its equations), `SortedExists` (a finite set of numbers has an
enumeration in order, so that the `CHOOSE` of a sort is not empty), `NewestSize` (cutting a set to n leaves n, or all)
and `TurnsAre`. The last is about the loop of `response_stats`: after n messages the pending one is the first
inbound that waits (`Waits`), and the pairs are the replies so far (`Pairs`), whether the next message is skipped,
waits or replies (`LoopSkips`, `LoopWaits`, `LoopReplies`). `RowsByDate` is what `list_chats` needs: the rows by the
place of their last message are the rows, so what a bounded scan leaves out is older than all it has kept.

`AllowlistProofs`: `AllowInvHolds`, and from it `EditsAddUp`, `EmptiedByHoles`, `ComebacksBounded` and
`ClosedOnTheWay`. `ComebacksPaid` and `EditsPaid` are the argument: each command with a list in memory may undo what
was edited since it read, and of n such commands all but the first were begun during another, so that the list may be
apart from `wanted` by the overlaps less n - 1. `TemplatesPaid` does the same for the template: one that is on its
way, or a gap that waits for one, was paid for by a command that died or by an overlap, but for the first
installation, before anything is wanted.

`LaunchProofs`: `LaunchInvHolds`, and from it `ExitsHaveFaults`, `TwoChecksAgree` and `VouchedLaunches`, in all four
builds. `PassedOK` says that the checks passed so far still hold while nothing changes; the lemmas relate each
verdict to a fault (`CheckVerdict`), and the absence of faults to the helper's own rules. `LoadOK` knows the step of
the load: that a look agrees with the file while nothing changes, and that a hardened helper has the mode of its
environment once the mode is read. `RootGrantsAll` rests on the latter, and on the fact that what is read after a
look that passed is either a private list of root's or has slipped. `HiddenThroughLoad` needs `ComingHides`: the
policy under way, made of what has been read, of what was passed over and, for the rest, of the files as they are
(`Coming`), hides whatever has been hidden all along. It is kept by an edit of a file that is still to be read,
because then the files themselves tell; by an edit of one that was read, because the lists only get stricter; and by
an edit of the mode, because the lists read after it are at least as strict as those beside which it was read. The
mutant that reads the lists first breaks just this. `DamageCloses` compares two launches, before and after a file is damaged: no check passes that
failed (`DamagePassesNothing`), nothing that stopped the helper is readable now (`DamageReadsNothing`), and the
policy allows no more (`DamageShowsNothing`, `DamageSendsNothing`).

### Only model-checked

- `StaleFilesRemoved` and `Drained`: liveness under fairness, which needs ENABLED, is out of the prover's reach.

Of every other property of a run that holds there is a theorem. `LossesBounded` speaks of the first overlap after the
log was quiet, because a second one may cost every backup there is.

## Not modelled, and why

- The snapshot of chat.db: a check of the size and one copy through SQLite's backup API; what makes it right is
  SQLite's. `ReadActions` takes it as one step.
- Decoding, redaction, the parsing of address books and the validation of parameters: text processing without state.
- The opening of files relative to a descriptor, with checks of owner and mode: no state and no order of its own.
  Where a check may fail, the models have the failure.
- Of the installers everything but the set-up of the allowlist: copies and `launchctl` calls that one person runs
  once. Uninstalling is not modelled, and neither is a list that is removed by hand.
- `doctor.py`, the version and parity checks and CI: reports that nothing else depends on.
- Usage errors of the wrapper (exit 8) and the discovery of a product's bundle (exit 9): they come before any check
  and change nothing.

Worth doing next: the order of the steps of `install-hardened.sh` and the migration against a failure of each.
