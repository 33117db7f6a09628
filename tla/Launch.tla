-------------------------------- MODULE Launch --------------------------------
(***************************************************************************)
(* From the start of a helper to its privacy policy: the checks of the     *)
(* signed wrapper (bin/imessage_helper.c) one by one, the environment it   *)
(* gives to Python, and what bin/helper.py then accepts: its sibling       *)
(* module, and the policy files, each looked at and then read by its path, *)
(* one after another, in each of the four builds. Files change between any *)
(* two of these steps: an installer, an update, or the user.               *)
(*                                                                         *)
(* An artefact is what lstat says of a file and what is in it, or, of a    *)
(* link, in the file that it leads to.                                     *)
(***************************************************************************)
EXTENDS PolicyMatch, Naturals, FiniteSets, Sequences

CONSTANTS
  Ids,          \* identifiers of chats and people
  Builds,       \* a subset of {"diy", "hardened", "host", "manager"}
  Changeable,   \* the names of the files that change
  Edited,       \* those of them that are edited, and
  EditShapes,   \* what an edit leaves: a set of [kind, owner, access]
  MaxChanges    \* bound on the number of edits; any other change counts as all

ASSUME MaxChangesNat == MaxChanges \in Nat
ASSUME BuildsKnown == Builds \subseteq {"diy", "hardened", "host", "manager"}

VARIABLES
  build,     \* how the wrapper was compiled; for a product, the id given to it
  files,     \* [file names -> artefacts]
  bundle,    \* of a product: [owner, seals]; seals are the signatures in order
  place,     \* the check that is next, or where the launch ended
  icon,      \* host_icon_available
  dry,       \* --validate-only
  policy,    \* what load_privacy_policy has read so far
  admitted,  \* can_read_policy, or that _load_list has got past its checks
  changes,   \* the number of changes so far
  calm,      \* no file has changed since the launch began
  vouched,   \* a --validate-only run has succeeded and no file changed since
  \* History, of the load of the policy:
  slipped,   \* files exchanged, between check and read, for what fails the check
  hidden,    \* what the files have hidden, at every moment of the load
  loosened   \* an entry was taken off the blocklist, or put on the allowlist
load == <<policy, admitted, slipped, hidden, loosened>>
vars == <<build, files, bundle, place, icon, dry, changes, calm, vouched, load>>

Owners   == {"root", "user", "other"}
\* To group or world; "closed" is "private" where neither the mode nor an ACL
\* lets the user read the file, or the one that a link leads to.
Accesses == {"private", "closed", "shared", "writable"}
Code     == {"helper.py", "send_gate.py", "confirm", "icon", "python"}
Policy   == {"read_policy", "blocklist", "allowlist", "send_policy"}
Signed   == {"bundle", "confirm", "python"}

Product == build \in {"host", "manager"}

Missing == [kind |-> "none"]
Contents(f) == CASE f \in {"blocklist", "allowlist"} -> SUBSET Ids
                 [] f = "read_policy" -> {"allowlist", "blocklist", "garbage", "binary"}
                 [] f = "send_policy" -> {"enabled", "disabled", "garbage", "binary"}
                 [] OTHER             -> {"code"}
Artefact(f) ==
  {Missing} \cup
  [kind : {"file", "link", "directory"}, owner : Owners, access : Accesses,
   exec : IF f \in Code THEN BOOLEAN ELSE {FALSE}, content : Contents(f)]

There(a)    == a.kind # "none"
Regular(a)  == a.kind = "file"
Opens(a)    == a.kind \in {"file", "link"}
Private(a)  == a.access \in {"private", "closed"}
Closed(a)   == There(a) /\ a.access = "closed"
Readable(a) == Opens(a) /\ a.access # "closed"
NoPolicy    == [mode |-> "none", blocklist |-> {}, allowlist |-> {}]

-----------------------------------------------------------------------------
(* The wrapper. Each check returns 0 or the exit code of the wrapper.      *)

CodeOwner == IF build = "hardened" THEN "root" ELSE "user"

\* validate_file, of the builds with baked paths
ValidateFile(a, owner, exec) ==
  IF ~There(a) THEN 2
  ELSE IF ~Regular(a) THEN 3
  ELSE IF a.owner # owner THEN 4
  ELSE IF a.access = "writable" THEN 5
  ELSE IF exec /\ ~a.exec THEN 6
  ELSE 0

\* validate_ownership, of the products
ValidateOwnership(a, exec) ==
  IF ~There(a) THEN 2
  ELSE IF ~Regular(a) THEN 3
  ELSE IF a.access = "writable" THEN 5
  ELSE IF a.owner \notin {bundle.owner, "root"} THEN 4
  ELSE IF exec /\ ~a.exec THEN 6
  ELSE 0

\* The allowlist of a hardened build, after validate_file: a second lstat.
ValidatePrivate(a) ==
  IF There(a) /\ Private(a) THEN 0 ELSE 5

\* For a mutation run: the interpreter is left to execv, as in baked builds.
ChecksNoPython ==
  IF Product
  THEN <<"owner", "icon_there", "helper.py", "send_gate.py", "confirm", "icon",
         "seal_bundle", "seal_confirm", "seal_python">>
  ELSE <<"helper.py", "send_gate.py", "confirm">>
       \o IF build = "hardened" THEN <<"allowlist", "allowlist_private">> ELSE << >>

\* The checks of a build, in order.
Checks ==
  IF Product
  THEN <<"owner", "icon_there", "helper.py", "send_gate.py", "confirm", "icon", "python",
         "seal_bundle", "seal_confirm", "seal_python">>
  ELSE <<"helper.py", "send_gate.py", "confirm">>
       \o IF build = "hardened" THEN <<"allowlist", "allowlist_private">> ELSE << >>

Verdict(check) ==
  CASE check = "owner"             -> IF bundle.owner \in {"user", "root"} THEN 0 ELSE 4
    [] check = "icon_there"        -> 0
    [] check = "seal_bundle"       -> IF "bundle" \in bundle.seals THEN 0 ELSE 10
    [] check = "seal_confirm"      -> IF "confirm" \in bundle.seals THEN 0 ELSE 10
    [] check = "seal_python"       -> IF "python" \in bundle.seals THEN 0 ELSE 10
    [] check = "allowlist"         -> ValidateFile(files["allowlist"], "root", FALSE)
    [] check = "allowlist_private" -> ValidatePrivate(files["allowlist"])
    [] check \in Code ->
         IF ~Product THEN ValidateFile(files[check], CodeOwner, check = "confirm")
         ELSE IF check = "icon" /\ ~icon THEN 0
         ELSE ValidateOwnership(files[check], check \in {"confirm", "python"})

\* The environment that the wrapper builds from nothing, as far as Python
\* decides by it.
Environment ==
  IF Product
  THEN [IMESSAGE_PRODUCT_ID  |-> "set", IMESSAGE_SEND_GATE_PATH |-> "set",
        IMESSAGE_BRIDGE_ROLE |-> IF build = "manager" THEN "manager" ELSE "host"]
  ELSE [COWORK_IMESSAGE_READ_POLICY |->
          IF build = "hardened" THEN "allowlist" ELSE "runtime",
        COWORK_IMESSAGE_REQUIRE_ROOT_POLICY |->
          IF build = "hardened" THEN "1" ELSE "0"]

-----------------------------------------------------------------------------
(* The helper. *)

Env(name, default) ==
  IF name \in DOMAIN Environment THEN Environment[name] ELSE default

ProductMode ==
  DOMAIN Environment \cap {"IMESSAGE_PRODUCT_ID", "IMESSAGE_POLICY_DIR",
                           "IMESSAGE_SEND_GATE_PATH", "IMESSAGE_CONFIRM_HELPER_PATH"} # {}

BridgeRole == Env("IMESSAGE_BRIDGE_ROLE", "host")

\* For a mutation run: only the user's own module is accepted.
SendGateRejectedRoot(a) ==
  \/ ~There(a)
  \/ ~Regular(a)
  \/ a.owner # "user"
  \/ a.access = "writable"

\* _load_send_gate: whether it raises
SendGateRejected(a) ==
  \/ ~There(a)
  \/ ~Regular(a)
  \/ a.owner \notin {"root", "user"}
  \/ a.access = "writable"

\* The check of owner and mode that _load_list and load_privacy_policy share.
UserOwnerRejected(a) ==
  CASE a.owner = "root" -> ~Private(a)
    [] a.owner = "user" -> a.access = "writable"
    [] OTHER            -> TRUE

\* _load_list: the file is passed over
ListRejected(a, requireRoot, requireUser) ==
  \/ ~There(a)
  \/ ~Regular(a)
  \/ requireRoot /\ ~(a.owner = "root" /\ Private(a))
  \/ requireUser /\ UserOwnerRejected(a)

\* For a mutation run: the helper relies on the check of the wrapper.
RootNotRequired == FALSE

RootRequired == Env("COWORK_IMESSAGE_REQUIRE_ROOT_POLICY", "0") = "1"
Override == Env("COWORK_IMESSAGE_READ_POLICY", "runtime")

\* can_read_policy is false: in baked mode it is not, whatever the file is.
ModeRejected(a) ==
  ProductMode /\ (~There(a) \/ ~Regular(a) \/ UserOwnerRejected(a))

\* For a mutation run: the lists are loaded before the mode.
LoadOrderListsFirst == <<"blocklist", "allowlist", "read_policy">>

\* The files of the policy in the order they are loaded.
LoadOrder == <<"read_policy", "blocklist", "allowlist">>

\* The part of the policy that a file gives.
Part(f) == IF f = "read_policy" THEN "mode" ELSE f

\* The lstat of each: whether it is passed over.
Rejected(f, a) ==
  CASE f = "read_policy" -> ModeRejected(a)
    [] f = "blocklist"   -> ListRejected(a, FALSE, ProductMode)
    [] f = "allowlist"   -> ListRejected(a, RootRequired, ProductMode)

\* For a mutation run: a file that is not accepted counts as missing.
ReadModeOpen(ok, a) ==
  IF Override \in {"allowlist", "blocklist"} THEN Override
  ELSE IF ~ok \/ ~There(a) THEN "blocklist"
  ELSE IF a.content = "garbage" THEN "allowlist"
  ELSE a.content

\* The mode, of what is at the path when it is read; ok is can_read_policy.
ReadMode(ok, a) ==
  IF Override \in {"allowlist", "blocklist"} THEN Override
  ELSE IF ~ok THEN "allowlist"
  ELSE IF ~There(a) THEN IF ProductMode THEN "allowlist" ELSE "blocklist"
  ELSE IF a.content = "garbage" THEN "allowlist"
  ELSE a.content

LoadList(ok, a) == IF ok THEN a.content ELSE {}

Value(f, ok, a) == IF f = "read_policy" THEN ReadMode(ok, a) ELSE LoadList(ok, a)

\* The read raises, and nothing catches that: there is no file, the user has no
\* permission, or (of the mode) it is not UTF-8. A mode file that is not there
\* is the exception.
Raises(f, ok, a) ==
  /\ ok
  /\ IF f = "read_policy"
     THEN Override = "runtime" /\ There(a) /\ (~Readable(a) \/ a.content = "binary")
     ELSE ~Readable(a)

\* What load_privacy_policy returns, and whether it raises, when nothing
\* changes meanwhile.
Effective(f) == Value(f, ~Rejected(f, files[f]), files[f])
LoadPrivacyPolicy ==
  IF BridgeRole = "manager" THEN OpenPolicy
  ELSE [mode      |-> Effective("read_policy"),
        blocklist |-> Effective("blocklist"),
        allowlist |-> Effective("allowlist")]
PolicyRaises ==
  /\ BridgeRole # "manager"
  /\ \E k \in 1 .. 3 :
       LET f == LoadOrder[k] IN Raises(f, ~Rejected(f, files[f]), files[f])

\* is_send_policy_enabled, which is asked for every request
SendEnabled(a) ==
  ProductMode =>
    /\ There(a) /\ Regular(a)
    /\ a.owner = "user"
    /\ a.access # "writable"
    /\ a.content = "enabled"

-----------------------------------------------------------------------------
(* Steps. *)

At(where, n) == [at |-> where, n |-> n]

\* A file as the installers leave it.
Installed(f, content) ==
  [kind    |-> "file",
   owner   |-> IF build = "hardened" /\ f \in Code \cup {"allowlist"} THEN "root" ELSE "user",
   access  |-> IF f \in Policy THEN "private" ELSE "shared",
   exec    |-> f \in {"confirm", "python"},
   content |-> content]

Init ==
  /\ build \in Builds
  /\ \E mode \in {"allowlist", "blocklist"}, send \in {"enabled", "disabled"},
        blocked \in SUBSET Ids, allowed \in SUBSET Ids :
       files = [f \in Code \cup Policy |->
                  Installed(f, CASE f = "read_policy" -> mode
                                 [] f = "send_policy" -> send
                                 [] f = "blocklist"   -> blocked
                                 [] f = "allowlist"   -> allowed
                                 [] OTHER             -> "code")]
  /\ bundle = [owner |-> "user", seals |-> Signed]
  /\ place = At("idle", 0)
  /\ icon = TRUE
  /\ dry = FALSE
  /\ policy = NoPolicy /\ admitted = FALSE
  /\ slipped = {} /\ hidden = {} /\ loosened = FALSE
  /\ changes = 0
  /\ calm = TRUE
  /\ vouched = FALSE

\* launchd, an app or a person starts the wrapper.
Begin ==
  /\ place.at \in {"idle", "exited", "loaded", "raised"}
  /\ place' = At("check", 1)
  /\ dry' \in IF Product THEN BOOLEAN ELSE {FALSE}
  /\ policy' = NoPolicy /\ admitted' = FALSE
  /\ slipped' = {} /\ hidden' = {} /\ loosened' = FALSE
  /\ calm' = TRUE
  /\ UNCHANGED <<build, files, bundle, icon, changes, vouched>>

Check ==
  /\ place.at = "check"
  /\ place.n <= Len(Checks)
  /\ LET code == Verdict(Checks[place.n])
     IN  place' = IF code = 0 THEN At("check", place.n + 1) ELSE At("exited", code)
  /\ icon' = IF Checks[place.n] = "icon_there" THEN There(files["icon"]) ELSE icon
  /\ UNCHANGED <<build, files, bundle, dry, changes, calm, vouched, load>>

Checked == place.at = "check" /\ place.n > Len(Checks)

\* --validate-only: the paths are printed.
Vouch ==
  /\ Checked
  /\ dry
  /\ place' = At("exited", 0)
  /\ vouched' = calm
  /\ UNCHANGED <<build, files, bundle, icon, dry, changes, calm, load>>

\* A value of the environment does not fit its buffer.
TooLong ==
  /\ Checked
  /\ ~dry
  /\ place' = At("exited", 7)
  /\ UNCHANGED <<build, files, bundle, icon, dry, changes, calm, vouched, load>>

\* execv fails when there is no interpreter that can be executed. Of the builds
\* with baked paths the wrapper does not check it.
Exec ==
  /\ Checked
  /\ ~dry
  /\ LET python == files["python"]
     IN  place' = IF Opens(python) /\ python.exec
                  THEN At("launched", 0) ELSE At("exited", 1)
  /\ UNCHANGED <<build, files, bundle, icon, dry, changes, calm, vouched, load>>

\* Python opens helper.py.
ReadHelper ==
  /\ place.at = "launched"
  /\ place' = IF Readable(files["helper.py"]) THEN At("import", 1) ELSE At("raised", 0)
  /\ UNCHANGED <<build, files, bundle, icon, dry, changes, calm, vouched, load>>

\* _load_send_gate: the lstat of send_gate.py,
CheckSendGate ==
  /\ place = At("import", 1)
  /\ place' = IF SendGateRejected(files["send_gate.py"])
              THEN At("raised", 0) ELSE At("import", 2)
  /\ UNCHANGED <<build, files, bundle, icon, dry, changes, calm, vouched, load>>

\* and exec_module, which opens the path again.
ReadSendGate ==
  /\ place = At("import", 2)
  /\ place' = IF Readable(files["send_gate.py"])
              THEN At("imported", 0) ELSE At("raised", 0)
  /\ UNCHANGED <<build, files, bundle, icon, dry, changes, calm, vouched, load>>

Loading == place.at \in {"look", "read"}
Hiding  == {id \in Ids : ~IsReadAllowed(id, Nobody, LoadPrivacyPolicy)}

\* main calls load_privacy_policy, which in a management bridge reads nothing.
LoadPolicy ==
  /\ place.at = "imported"
  /\ IF BridgeRole = "manager"
     THEN place' = At("loaded", 0) /\ policy' = OpenPolicy
     ELSE place' = At("look", 1) /\ policy' = policy
  /\ hidden' = Hiding
  /\ UNCHANGED <<build, files, bundle, icon, dry, changes, calm, vouched>>
  /\ UNCHANGED <<admitted, slipped, loosened>>

\* The lstat of a policy file, and the checks made on it.
CheckPolicyFile ==
  /\ place.at = "look"
  /\ LET f == LoadOrder[place.n] IN admitted' = ~Rejected(f, files[f])
  /\ place' = At("read", place.n)
  /\ UNCHANGED <<build, files, bundle, icon, dry, changes, calm, vouched>>
  /\ UNCHANGED <<policy, slipped, hidden, loosened>>

\* Then read_text, of what is at the path by then.
ReadPolicyFile ==
  /\ place.at = "read"
  /\ LET f == LoadOrder[place.n]
         a == files[f]
     IN  /\ IF Raises(f, admitted, a)
            THEN place' = At("raised", 0) /\ policy' = policy
            ELSE /\ place' = IF place.n < 3 THEN At("look", place.n + 1) ELSE At("loaded", 0)
                 /\ policy' = [policy EXCEPT ![Part(f)] = Value(f, admitted, a)]
         /\ slipped' = IF admitted /\ Rejected(f, a) THEN slipped \cup {f} ELSE slipped
  /\ admitted' = FALSE
  /\ UNCHANGED <<build, files, bundle, icon, dry, changes, calm, vouched>>
  /\ UNCHANGED <<hidden, loosened>>

\* What a change takes of the bound: one, of an edit; or all of it.
Cost(f, a) ==
  IF /\ f \in Edited
     /\ There(a) => [kind |-> a.kind, owner |-> a.owner, access |-> a.access] \in EditShapes
  THEN 1 ELSE MaxChanges

Spends(cost) ==
  /\ changes < MaxChanges
  /\ changes + cost <= MaxChanges
  /\ changes' = changes + cost

\* A file is replaced, edited, removed, or given another owner or mode.
ChangeFile(f) ==
  /\ UNCHANGED <<build, bundle, place, icon, dry, policy, admitted, slipped>>
  /\ \E a \in Artefact(f) \ {files[f]} :
       /\ Spends(Cost(f, a))
       /\ files' = [files EXCEPT ![f] = a]
  /\ calm' = FALSE
  /\ vouched' = FALSE
  /\ hidden' = hidden \cap Hiding'
  /\ loosened' = (loosened \/
       /\ Loading
       /\ \/ ~(LoadPrivacyPolicy.blocklist \subseteq LoadPrivacyPolicy'.blocklist)
          \/ ~(LoadPrivacyPolicy'.allowlist \subseteq LoadPrivacyPolicy.allowlist))

\* The bundle gets another owner, or other signatures hold.
ChangeBundle ==
  /\ Product
  /\ "bundle" \in Changeable
  /\ Spends(MaxChanges)
  /\ \E o \in Owners, seals \in SUBSET Signed : bundle' = [owner |-> o, seals |-> seals]
  /\ calm' = FALSE
  /\ vouched' = FALSE
  /\ UNCHANGED <<build, files, place, icon, dry, load>>

Next ==
  \/ Begin \/ Check \/ Vouch \/ TooLong \/ Exec
  \/ ReadHelper \/ CheckSendGate \/ ReadSendGate
  \/ LoadPolicy \/ CheckPolicyFile \/ ReadPolicyFile
  \/ \E f \in Changeable \cap (Code \cup Policy) : ChangeFile(f)
  \/ ChangeBundle

Spec == Init /\ [][Next]_vars

-----------------------------------------------------------------------------
(* Properties. *)

\* Where a launch is once the wrapper has handed over to Python.
Launched == {"launched", "import", "imported", "look", "read", "loaded", "raised"}

\* The shape of the state.
LaunchTypeOK ==
  /\ build \in Builds
  /\ \A f \in DOMAIN files : files[f] \in Artefact(f)
  /\ bundle \in [owner : Owners, seals : SUBSET Signed]
  /\ place.at \in {"idle", "check", "exited"} \cup Launched
  /\ place.n \in 0 .. 11
  /\ policy \in [mode : {"none", "allowlist", "blocklist"},
                 blocklist : SUBSET Ids, allowlist : SUBSET Ids]
  /\ place.at = "loaded" => policy.mode # "none"
  /\ slipped \subseteq Policy /\ hidden \subseteq Ids
  /\ changes \in 0 .. MaxChanges
  /\ icon \in BOOLEAN /\ dry \in BOOLEAN /\ calm \in BOOLEAN /\ vouched \in BOOLEAN
  /\ admitted \in BOOLEAN /\ loosened \in BOOLEAN

\* The files that a launch rests on, and who may own each.
RestsOn ==
  {"helper.py", "send_gate.py", "confirm"}
    \cup IF Product THEN {"python"} \cup {f \in {"icon"} : There(files[f])}
         ELSE IF build = "hardened" THEN {"allowlist"} ELSE {}

MayOwn(f) ==
  CASE Product            -> {bundle.owner, "root"}
    [] build = "hardened" -> {"root"}
    [] OTHER              -> {"user"}

MustExec(f) == f = "confirm" \/ (f = "python" /\ Product)

\* The documented meaning of each exit code: whether there is such a fault.
Fault(code) ==
  CASE code = 2  -> \E f \in RestsOn : ~There(files[f])
    [] code = 3  -> \E f \in RestsOn : There(files[f]) /\ ~Regular(files[f])
    [] code = 4  -> \/ Product /\ bundle.owner = "other"
                    \/ \E f \in RestsOn : There(files[f]) /\ files[f].owner \notin MayOwn(f)
    [] code = 5  -> \E f \in RestsOn :
                      /\ There(files[f])
                      /\ \/ files[f].access = "writable"
                         \/ f = "allowlist" /\ ~Private(files[f])
    [] code = 6  -> \E f \in RestsOn : There(files[f]) /\ MustExec(f) /\ ~files[f].exec
    [] code = 10 -> Product /\ bundle.seals # Signed
    [] OTHER     -> FALSE
Faults == {2, 3, 4, 5, 6, 10}

\* Unless something changes under it, a launch ends with an exit code that
\* names a fault the installation has, and gets to Python only when it has
\* none of them.
ExitNamesAFault ==
  calm =>
    /\ place.at = "exited" /\ place.n \in Faults => Fault(place.n)
    /\ place.at \in Launched => \A code \in Faults : ~Fault(code)

\* What the wrapper does not look for: a file that Python has to open and the
\* user cannot read, or a mode file that is a directory or not UTF-8.
CannotBeRead ==
  \/ \E f \in {"helper.py", "send_gate.py"} : Closed(files[f])
  \/ build # "manager" /\ \E f \in {"blocklist", "allowlist"} : Closed(files[f])
  \/ /\ build \in {"diy", "host"}
     /\ LET a == files["read_policy"]
        IN  Closed(a) \/ (Opens(a) /\ a.content = "binary") \/ a.kind = "directory"

\* What the wrapper accepts the helper accepts: although the two check the
\* same files by different rules, a helper that was launched, and under which
\* nothing changes, loads its sibling module and its policy, and reads the
\* whole allowlist that the wrapper demanded. Only a file that cannot be read
\* stops it, for the wrapper looks at owners and modes and opens nothing.
AcceptedByBoth ==
  calm =>
    /\ place.at = "raised" => CannotBeRead
    /\ place.at = "loaded" /\ build = "hardened" =>
         policy.allowlist = files["allowlist"].content

\* --validate-only predicts: after it has succeeded, and as long as nothing
\* changes, no launch of the product is refused by a check.
ValidateOnlyPredicts ==
  vouched /\ place.at = "exited" => place.n \notin Faults \cup {1}

Granted(a) == {id \in Ids : MatchesList(id, Nobody, a.content)}

\* In a hardened build only root grants: also when the list is exchanged after
\* the wrapper has checked it, or while the helper reads the other files, what
\* the helper will read is what a private list of root's names at the moment of
\* the read, and nothing when there is none. Only an exchange between the two
\* system calls on the list itself, its lstat and its read, goes unnoticed.
OnlyRootGrants ==
  [][build = "hardened" /\ place.at # "loaded" /\ place'.at = "loaded" =>
       LET a == files["allowlist"]
       IN  \/ "allowlist" \in slipped'
           \/ {id \in Ids : IsReadAllowed(id, Nobody, policy')} \subseteq
                IF There(a) /\ Regular(a) /\ a.owner = "root" /\ Private(a)
                THEN Granted(a) ELSE {}]_vars

\* Hidden stays hidden: the files are read one after another, yet no mixture of
\* what they held at different moments shows what they hid at every moment of
\* the load, as long as the lists only get stricter meanwhile: whoever hides a
\* chat and then opens the mode is safe from a helper that starts in between.
HiddenStaysHidden ==
  place.at = "loaded" /\ ~loosened /\ slipped = {} =>
    \A id \in hidden : ~IsReadAllowed(id, Nobody, policy)

\* What a launch would read, and whether it would send, with files as they are.
WouldRun ==
  /\ \A k \in DOMAIN Checks : Verdict(Checks[k]) = 0
  /\ Opens(files["python"]) /\ files["python"].exec
  /\ Readable(files["helper.py"])
  /\ ~SendGateRejected(files["send_gate.py"]) /\ Readable(files["send_gate.py"])
  /\ ~PolicyRaises
WouldRead == {id \in Ids : WouldRun /\ IsReadAllowed(id, Nobody, LoadPrivacyPolicy)}
WouldSend == WouldRun /\ SendEnabled(files["send_policy"])

\* A good file, in a bundle that is the user's as installed, loses its owner,
\* its mode or itself, or turns into a link, but is not edited.
Damaged(f) ==
  /\ Product => bundle.owner = "user"
  /\ There(files[f])
  /\ files[f] = Installed(f, files[f].content)
  /\ f = "read_policy" => files[f].content # "binary"
  /\ files'[f] # files[f]
  /\ There(files'[f]) => files'[f].content = files[f].content

\* Damage never opens: no loss of a file, of its owner or of its mode lets a
\* helper read or send what it did not before. The blocklist is not among the
\* files, and of the plain build neither is the mode file, whose default is
\* the open one. A management bridge serves no reads that a policy governs.
DamageNeverOpens ==
  [][build # "manager" =>
       \A f \in (Code \cup Policy)
                 \ ({"blocklist"} \cup IF build = "diy" THEN {"read_policy"} ELSE {}) :
         Damaged(f) => WouldRead' \subseteq WouldRead /\ (WouldSend' => WouldSend)]_vars

\* The blocklist always removes listed threads: whatever it lists is hidden.
ListedIsHidden ==
  calm /\ place.at = "loaded" /\ build # "manager" =>
    LET a == files["blocklist"]
    IN  There(a) /\ Regular(a) =>
          \A id \in a.content : ~IsReadAllowed(id, Nobody, policy)

-----------------------------------------------------------------------------
(* Why: the inductive invariant. *)

Sound == \A code \in Faults : ~Fault(code)

\* The checks passed so far still hold, as long as nothing changes.
PassedOK ==
  place.at = "check" =>
    /\ place.n \in 1 .. Len(Checks) + 1
    /\ calm => \A k \in 1 .. place.n - 1 : Verdict(Checks[k]) = 0
    /\ calm /\ Product /\ place.n > 2 => icon = There(files["icon"])

\* What was vouched for has not changed.
VouchedOK ==
  /\ dry => Product
  /\ vouched => calm /\ Product /\ Sound

\* The place that goes with each step of the load, and what is known there.
LoadOK ==
  /\ place.at = "import" => place.n \in 1 .. 2
  /\ Loading => place.n \in 1 .. 3 /\ build # "manager"
  /\ place.at = "read" /\ calm =>
       LET f == LoadOrder[place.n] IN admitted <=> ~Rejected(f, files[f])
  /\ place.at = "loaded" \/ (Loading /\ place.n > 1) =>
       /\ policy.mode # "none"
       /\ build = "hardened" => policy.mode = "allowlist"

\* What a part of the policy will be: as read when it has been, the default
\* when its file has been passed over, and else as the file is.
Coming(k) ==
  IF place.at = "loaded" \/ k < place.n THEN policy[Part(LoadOrder[k])]
  ELSE IF place.at = "read" /\ k = place.n /\ ~admitted
       THEN Value(LoadOrder[k], FALSE, files[LoadOrder[k]])
  ELSE Effective(LoadOrder[k])

\* The policy under way hides what has been hidden all along.
ComingHides ==
  (Loading \/ place.at = "loaded") /\ ~loosened /\ slipped = {} =>
    \A id \in hidden :
      ~IsReadAllowed(id, Nobody,
                     [mode |-> Coming(1), blocklist |-> Coming(2), allowlist |-> Coming(3)])

LaunchInv ==
  /\ LaunchTypeOK
  /\ DOMAIN files = Code \cup Policy
  /\ PassedOK /\ VouchedOK /\ LoadOK /\ ComingHides
  /\ ExitNamesAFault /\ AcceptedByBoth /\ ValidateOnlyPredicts
=============================================================================
