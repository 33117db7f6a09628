----------------------------- MODULE LaunchProofs -----------------------------
(***************************************************************************)
(* A launch, for any identifiers, any files and any number of changes: the *)
(* exit codes are true, wrapper and helper agree, what is hidden throughout *)
(* a load stays hidden, a hardened build reads what root grants, and damage *)
(* to a file opens nothing.                                                *)
(***************************************************************************)
EXTENDS Launch, TLAPS

\* The environment of a hardened build fixes the mode and demands root's list.
LEMMA HardenedEnvironment ==
  ASSUME build = "hardened"
  PROVE  /\ Override = "allowlist"
         /\ RootRequired
         /\ ~ProductMode
         /\ BridgeRole = "host"
<1>1. ~Product
  BY DEF Product
<1>2. Environment = [COWORK_IMESSAGE_READ_POLICY |-> "allowlist",
                     COWORK_IMESSAGE_REQUIRE_ROOT_POLICY |-> "1"]
  BY <1>1 DEF Environment
<1>3. DOMAIN Environment =
        {"COWORK_IMESSAGE_READ_POLICY", "COWORK_IMESSAGE_REQUIRE_ROOT_POLICY"}
  BY <1>2
<1>4. Override = "allowlist"
  BY <1>2, <1>3 DEF Override, Env
<1>5. RootRequired
  BY <1>2, <1>3 DEF RootRequired, Env
<1>6. ~ProductMode /\ BridgeRole = "host"
  BY <1>3 DEF ProductMode, BridgeRole, Env
<1> QED
  BY <1>4, <1>5, <1>6

LEMMA SameEnvironment ==
  ASSUME build' = build
  PROVE  /\ Environment' = Environment /\ (ProductMode' <=> ProductMode)
         /\ BridgeRole' = BridgeRole /\ Override' = Override /\ (RootRequired' <=> RootRequired)
<1>1. Environment' = Environment
  BY DEF Environment, Product
<1> QED
  BY <1>1 DEF ProductMode, BridgeRole, Override, RootRequired, Env

\* What the environment says in the other builds.
LEMMA WhichEnvironment ==
  /\ ProductMode <=> Product
  /\ build # "manager" => BridgeRole # "manager"
  /\ RootRequired => build = "hardened"
  /\ build # "hardened" => Override = "runtime"
<1>1. CASE Product
  <2>1. Environment = [IMESSAGE_PRODUCT_ID |-> "set", IMESSAGE_SEND_GATE_PATH |-> "set",
                       IMESSAGE_BRIDGE_ROLE |-> IF build = "manager" THEN "manager" ELSE "host"]
    BY <1>1 DEF Environment
  <2>2. DOMAIN Environment = {"IMESSAGE_PRODUCT_ID", "IMESSAGE_SEND_GATE_PATH", "IMESSAGE_BRIDGE_ROLE"}
    BY <2>1
  <2>3. ProductMode
    BY <2>2 DEF ProductMode
  <2>4. build # "manager" => BridgeRole = "host"
    BY <2>1, <2>2 DEF BridgeRole, Env
  <2>5. ~RootRequired
    BY <2>2 DEF RootRequired, Env
  <2>6. Override = "runtime"
    BY <2>2 DEF Override, Env
  <2> QED
    BY <1>1, <2>3, <2>4, <2>5, <2>6
<1>2. CASE ~Product
  <2>1. Environment = [COWORK_IMESSAGE_READ_POLICY |->
                         IF build = "hardened" THEN "allowlist" ELSE "runtime",
                       COWORK_IMESSAGE_REQUIRE_ROOT_POLICY |->
                         IF build = "hardened" THEN "1" ELSE "0"]
    BY <1>2 DEF Environment
  <2>2. DOMAIN Environment = {"COWORK_IMESSAGE_READ_POLICY", "COWORK_IMESSAGE_REQUIRE_ROOT_POLICY"}
    BY <2>1
  <2>3. ~ProductMode
    BY <2>2 DEF ProductMode
  <2>4. BridgeRole = "host"
    BY <2>2 DEF BridgeRole, Env
  <2>5. RootRequired => build = "hardened"
    BY <2>1, <2>2 DEF RootRequired, Env
  <2>6. build # "hardened" => Override = "runtime"
    BY <2>1, <2>2 DEF Override, Env
  <2> QED
    BY <1>2, <2>3, <2>4, <2>5, <2>6
<1> QED
  BY <1>1, <1>2

-----------------------------------------------------------------------------
(* The checks of a build name the faults of an installation, and all of    *)
(* them.                                                                   *)

LEMMA ChecksList ==
  /\ Product => /\ Len(Checks) = 10
                /\ Checks[1] = "owner" /\ Checks[2] = "icon_there" /\ Checks[3] = "helper.py"
                /\ Checks[4] = "send_gate.py" /\ Checks[5] = "confirm" /\ Checks[6] = "icon"
                /\ Checks[7] = "python" /\ Checks[8] = "seal_bundle" /\ Checks[9] = "seal_confirm"
                /\ Checks[10] = "seal_python"
  /\ ~Product => /\ Len(Checks) = IF build = "hardened" THEN 5 ELSE 3
                 /\ Checks[1] = "helper.py" /\ Checks[2] = "send_gate.py" /\ Checks[3] = "confirm"
                 /\ build = "hardened" => Checks[4] = "allowlist" /\ Checks[5] = "allowlist_private"
<1>1. CASE Product
  BY <1>1 DEF Checks
<1>2. CASE ~Product /\ build = "hardened"
  <2>1. Checks = <<"helper.py", "send_gate.py", "confirm">> \o <<"allowlist", "allowlist_private">>
    BY <1>2 DEF Checks
  <2>2. /\ Len(Checks) = 5 /\ Checks[1] = "helper.py" /\ Checks[2] = "send_gate.py"
        /\ Checks[3] = "confirm" /\ Checks[4] = "allowlist" /\ Checks[5] = "allowlist_private"
    BY <2>1
  <2> QED
    BY <1>2, <2>2
<1>3. CASE ~Product /\ build # "hardened"
  <2>1. Checks = <<"helper.py", "send_gate.py", "confirm">> \o << >>
    BY <1>3 DEF Checks
  <2>2. Checks = <<"helper.py", "send_gate.py", "confirm">>
    BY <2>1
  <2> QED
    BY <1>3, <2>2
<1> QED
  BY <1>1, <1>2, <1>3

\* the checks of one file by one of the two rules
LEMMA FileVerdict ==
  ASSUME NEW a, NEW owner, NEW exec \in BOOLEAN
  PROVE  LET v == ValidateFile(a, owner, exec) IN
         /\ v = 0 => There(a) /\ Regular(a) /\ a.owner = owner /\ a.access # "writable" /\ (exec => a.exec)
         /\ v # 0 => \/ v = 2 /\ ~There(a)
                     \/ v = 3 /\ There(a) /\ ~Regular(a)
                     \/ v = 4 /\ There(a) /\ a.owner # owner
                     \/ v = 5 /\ There(a) /\ a.access = "writable"
                     \/ v = 6 /\ There(a) /\ exec /\ ~a.exec
  BY DEF ValidateFile

LEMMA OwnedVerdict ==
  ASSUME NEW a, NEW exec \in BOOLEAN
  PROVE  LET v == ValidateOwnership(a, exec) IN
         /\ v = 0 => /\ There(a) /\ Regular(a) /\ a.owner \in {bundle.owner, "root"} /\ a.access # "writable"
                     /\ exec => a.exec
         /\ v # 0 => \/ v = 2 /\ ~There(a)
                     \/ v = 3 /\ There(a) /\ ~Regular(a)
                     \/ v = 4 /\ There(a) /\ a.owner \notin {bundle.owner, "root"}
                     \/ v = 5 /\ There(a) /\ a.access = "writable"
                     \/ v = 6 /\ There(a) /\ exec /\ ~a.exec
  BY DEF ValidateOwnership

\* a file that a launch rests on is as it must be
Fit(f) ==
  /\ There(files[f]) /\ Regular(files[f]) /\ files[f].owner \in MayOwn(f)
  /\ files[f].access # "writable" /\ (MustExec(f) => files[f].exec)

Named(code) == code \in Faults /\ Fault(code)

LEMMA FitVerdict ==
  ASSUME NEW f \in Code, f \in RestsOn, f = "icon" => icon
  PROVE  /\ Verdict(f) = 0 => Fit(f)
         /\ Verdict(f) # 0 => Named(Verdict(f))
<1>1. f \in {"helper.py", "send_gate.py", "confirm", "icon", "python"}
  BY DEF Code
<1>2. CASE Product
  <2> DEFINE exec == f \in {"confirm", "python"}
  <2>1. exec \in BOOLEAN /\ (MustExec(f) <=> exec)
    BY <1>1, <1>2 DEF MustExec
  <2>2. Verdict(f) = ValidateOwnership(files[f], exec)
    BY <1>1, <1>2 DEF Verdict, Code
  <2>3. MayOwn(f) = {bundle.owner, "root"}
    BY <1>2 DEF MayOwn, Product
  <2> HIDE DEF exec
  <2>4. /\ Verdict(f) = 0 => Fit(f)
        /\ Verdict(f) # 0 => \/ Verdict(f) = 2 /\ ~There(files[f])
                             \/ Verdict(f) = 3 /\ There(files[f]) /\ ~Regular(files[f])
                             \/ Verdict(f) = 4 /\ There(files[f]) /\ files[f].owner \notin MayOwn(f)
                             \/ Verdict(f) = 5 /\ There(files[f]) /\ files[f].access = "writable"
                             \/ Verdict(f) = 6 /\ There(files[f]) /\ MustExec(f) /\ ~files[f].exec
    BY <2>1, <2>2, <2>3, OwnedVerdict DEF Fit
  <2> QED
    BY <2>4 DEF Named, Fault, Faults
<1>3. CASE ~Product
  <2> DEFINE exec == f = "confirm"
  <2>0. f \in {"helper.py", "send_gate.py", "confirm"}
    BY <1>1, <1>3 DEF RestsOn
  <2>1. exec \in BOOLEAN /\ (MustExec(f) <=> exec)
    BY <2>0, <1>3 DEF MustExec
  <2>2. Verdict(f) = ValidateFile(files[f], CodeOwner, exec)
    BY <2>0, <1>3 DEF Verdict, Code
  <2>3. MayOwn(f) = {CodeOwner}
    BY <1>3 DEF MayOwn, CodeOwner
  <2> HIDE DEF exec
  <2>4. /\ Verdict(f) = 0 => Fit(f)
        /\ Verdict(f) # 0 => \/ Verdict(f) = 2 /\ ~There(files[f])
                             \/ Verdict(f) = 3 /\ There(files[f]) /\ ~Regular(files[f])
                             \/ Verdict(f) = 4 /\ There(files[f]) /\ files[f].owner \notin MayOwn(f)
                             \/ Verdict(f) = 5 /\ There(files[f]) /\ files[f].access = "writable"
                             \/ Verdict(f) = 6 /\ There(files[f]) /\ MustExec(f) /\ ~files[f].exec
    BY <2>1, <2>2, <2>3, FileVerdict DEF Fit
  <2> QED
    BY <2>4 DEF Named, Fault, Faults
<1> QED
  BY <1>2, <1>3

-----------------------------------------------------------------------------
(* A check that fails names a fault; when all have passed there is none.   *)

LEMMA VerdictIs ==
  /\ Verdict("owner") = IF bundle.owner \in {"user", "root"} THEN 0 ELSE 4
  /\ Verdict("icon_there") = 0
  /\ Verdict("seal_bundle") = IF "bundle" \in bundle.seals THEN 0 ELSE 10
  /\ Verdict("seal_confirm") = IF "confirm" \in bundle.seals THEN 0 ELSE 10
  /\ Verdict("seal_python") = IF "python" \in bundle.seals THEN 0 ELSE 10
  /\ Verdict("allowlist") = ValidateFile(files["allowlist"], "root", FALSE)
  /\ Verdict("allowlist_private") = ValidatePrivate(files["allowlist"])
  /\ Product /\ ~icon => Verdict("icon") = 0
<1>1. /\ Verdict("owner") = IF bundle.owner \in {"user", "root"} THEN 0 ELSE 4
      /\ Verdict("icon_there") = 0
  BY DEF Verdict, Code
<1>2. Verdict("seal_bundle") = IF "bundle" \in bundle.seals THEN 0 ELSE 10
  BY DEF Verdict, Code
<1>3. Verdict("seal_confirm") = IF "confirm" \in bundle.seals THEN 0 ELSE 10
  BY DEF Verdict, Code
<1>4. Verdict("seal_python") = IF "python" \in bundle.seals THEN 0 ELSE 10
  BY DEF Verdict, Code
<1>5. Verdict("allowlist") = ValidateFile(files["allowlist"], "root", FALSE)
  BY DEF Verdict, Code
<1>6. Verdict("allowlist_private") = ValidatePrivate(files["allowlist"])
  BY DEF Verdict, Code
<1>7. Product /\ ~icon => Verdict("icon") = 0
  BY DEF Verdict, Code
<1> QED
  BY <1>1, <1>2, <1>3, <1>4, <1>5, <1>6, <1>7

Steps == 1 .. Len(Checks)
Passed(n) == \A k \in 1 .. n - 1 : Verdict(Checks[k]) = 0

LEMMA StepsAre ==
  /\ Product => Steps = 1 .. 10
  /\ ~Product /\ build = "hardened" => Steps = 1 .. 5
  /\ ~Product /\ build # "hardened" => Steps = 1 .. 3
  BY ChecksList DEF Steps

\* of the allowlist, whose second lstat adds a check to the first
LEMMA ListVerdict ==
  ASSUME ~Product, build = "hardened"
  PROVE  /\ Verdict("allowlist") = 0 => Fit("allowlist")
         /\ Verdict("allowlist") # 0 => Named(Verdict("allowlist"))
         /\ Verdict("allowlist_private") = 0 => Private(files["allowlist"])
         /\ There(files["allowlist"]) /\ Verdict("allowlist_private") # 0 =>
              Named(Verdict("allowlist_private"))
<1> DEFINE a == files["allowlist"]
<1>1. MayOwn("allowlist") = {"root"} /\ "allowlist" \in RestsOn /\ ~MustExec("allowlist")
  BY DEF MayOwn, RestsOn, MustExec, Product
<1>v. Verdict("allowlist") = ValidateFile(a, "root", FALSE)
  BY VerdictIs
<1>w. Verdict("allowlist_private") = ValidatePrivate(a)
  BY VerdictIs
<1> HIDE DEF a
<1>2. /\ Verdict("allowlist") = 0 => There(a) /\ Regular(a) /\ a.owner = "root" /\ a.access # "writable"
      /\ Verdict("allowlist") # 0 => \/ Verdict("allowlist") = 2 /\ ~There(a)
                                     \/ Verdict("allowlist") = 3 /\ There(a) /\ ~Regular(a)
                                     \/ Verdict("allowlist") = 4 /\ There(a) /\ a.owner # "root"
                                     \/ Verdict("allowlist") = 5 /\ There(a) /\ a.access = "writable"
  BY <1>v, FileVerdict
<1>3. Verdict("allowlist") # 0 => Named(Verdict("allowlist"))
  BY <1>1, <1>2 DEF Named, Faults, Fault, a
<1>4. /\ Verdict("allowlist_private") = 0 => Private(a)
      /\ There(a) /\ Verdict("allowlist_private") # 0 =>
            Verdict("allowlist_private") = 5 /\ There(a) /\ ~Private(a)
  BY <1>w DEF ValidatePrivate, There, Private
<1>5. There(a) /\ Verdict("allowlist_private") # 0 => Named(Verdict("allowlist_private"))
  <2>1. There(a) /\ ~Private(a) => Named(5)
    BY <1>1 DEF Named, Faults, Fault, a
  <2> QED
    BY <1>4, <2>1
<1> QED
  BY <1>1, <1>2, <1>3, <1>4, <1>5 DEF Fit, a

LEMMA CheckVerdict ==
  ASSUME bundle.owner \in Owners,
         NEW k \in Steps, Passed(k), Product /\ k > 2 => icon = There(files["icon"])
  PROVE  Verdict(Checks[k]) # 0 => Named(Verdict(Checks[k]))
<1>1. CASE Product
  <2>0. k \in 1 .. 10
    BY <1>1, StepsAre
  <2>1. \/ Checks[k] \in {"helper.py", "send_gate.py", "confirm", "python"}
        \/ k = 6 /\ Checks[k] = "icon"
        \/ Checks[k] \in {"owner", "icon_there", "seal_bundle", "seal_confirm", "seal_python"}
    <3>1. k \in {1, 2, 3, 4, 5, 6, 7, 8, 9, 10}
      BY <2>0
    <3> QED
      BY <1>1, <3>1, ChecksList
  <2>2. CASE Checks[k] \in {"helper.py", "send_gate.py", "confirm", "python"}
    <3>1. Checks[k] \in RestsOn /\ Checks[k] \in Code /\ Checks[k] # "icon"
      BY <1>1, <2>2 DEF Code, RestsOn
    <3> QED
      BY <3>1, FitVerdict
  <2>3. CASE k = 6 /\ Checks[k] = "icon"
    <3>1. icon = There(files["icon"])
      BY <1>1, <2>3
    <3>2. icon => "icon" \in RestsOn /\ "icon" \in Code
      BY <1>1, <3>1 DEF RestsOn, Code
    <3> QED
      BY <1>1, <2>3, <3>2, FitVerdict, VerdictIs
  <2>4. CASE Checks[k] \in {"owner", "icon_there", "seal_bundle", "seal_confirm", "seal_python"}
    <3>1. Verdict("owner") # 0 => Verdict("owner") = 4 /\ bundle.owner = "other"
      BY VerdictIs DEF Owners
    <3>2. \A c \in {"seal_bundle", "seal_confirm", "seal_python"} :
            Verdict(c) # 0 => Verdict(c) = 10 /\ bundle.seals # Signed
      BY VerdictIs DEF Signed
    <3>3. (bundle.owner = "other" => Named(4)) /\ (bundle.seals # Signed => Named(10))
      BY <1>1 DEF Named, Faults, Fault
    <3>4. Verdict("icon_there") = 0
      BY VerdictIs
    <3>5. \A c \in {"owner", "icon_there", "seal_bundle", "seal_confirm", "seal_python"} :
            Verdict(c) # 0 => Named(Verdict(c))
      BY <3>1, <3>2, <3>3, <3>4
    <3> QED
      BY <2>4, <3>5
  <2> QED
    BY <2>1, <2>2, <2>3, <2>4
<1>2. CASE ~Product
  <2>1. \/ Checks[k] \in {"helper.py", "send_gate.py", "confirm"}
        \/ build = "hardened" /\ k = 4 /\ Checks[k] = "allowlist"
        \/ build = "hardened" /\ k = 5 /\ Checks[k] = "allowlist_private"
    <3>1. CASE build = "hardened"
      <4>1. k \in {1, 2, 3, 4, 5}
        BY <1>2, <3>1, StepsAre
      <4> QED
        BY <1>2, <3>1, <4>1, ChecksList
    <3>2. CASE build # "hardened"
      <4>1. k \in {1, 2, 3}
        BY <1>2, <3>2, StepsAre
      <4> QED
        BY <1>2, <4>1, ChecksList
    <3> QED
      BY <3>1, <3>2
  <2>2. CASE Checks[k] \in {"helper.py", "send_gate.py", "confirm"}
    <3>1. Checks[k] \in RestsOn /\ Checks[k] \in Code /\ Checks[k] # "icon"
      BY <2>2 DEF Code, RestsOn
    <3> QED
      BY <3>1, FitVerdict
  <2>3. CASE build = "hardened" /\ Checks[k] = "allowlist"
    BY <1>2, <2>3, ListVerdict
  <2>4. CASE build = "hardened" /\ k = 5 /\ Checks[k] = "allowlist_private"
    <3>1. Verdict(Checks[4]) = 0 /\ Checks[4] = "allowlist"
      <4>0. k = 5
        BY <2>4
      <4>1. 4 \in 1 .. k - 1
        BY <4>0
      <4> QED
        BY <1>2, <2>4, <4>1, ChecksList DEF Passed
    <3>2. There(files["allowlist"])
      BY <1>2, <2>4, <3>1, ListVerdict DEF Fit
    <3> QED
      BY <1>2, <2>4, <3>2, ListVerdict
  <2> QED
    BY <2>1, <2>2, <2>3, <2>4
<1> QED
  BY <1>1, <1>2

BundleTyped == bundle.owner \in Owners /\ bundle.seals \subseteq Signed

LEMMA AllPassed ==
  ASSUME BundleTyped, Passed(Len(Checks) + 1), Product => icon = There(files["icon"])
  PROVE  Sound
<1>1. \A k \in Steps : Verdict(Checks[k]) = 0
  <2>1. Len(Checks) \in Nat
    BY ChecksList
  <2>2. Len(Checks) + 1 - 1 = Len(Checks)
    BY <2>1
  <2> QED
    BY <2>2 DEF Passed, Steps
<1>2. \A f \in RestsOn \cap Code : Fit(f)
  <2>1. CASE Product
    <3>1. /\ Verdict("helper.py") = 0 /\ Verdict("send_gate.py") = 0 /\ Verdict("confirm") = 0
          /\ Verdict("icon") = 0 /\ Verdict("python") = 0
      BY <1>1, <2>1, ChecksList, StepsAre
    <3>2. "icon" \in RestsOn => icon
      BY <2>1 DEF RestsOn
    <3>3. ASSUME NEW f \in RestsOn \cap Code PROVE Verdict(f) = 0
      BY <3>1 DEF Code
    <3> QED
      BY <3>2, <3>3, FitVerdict
  <2>2. CASE ~Product
    <3>1. Verdict("helper.py") = 0 /\ Verdict("send_gate.py") = 0 /\ Verdict("confirm") = 0
      <4>1. 1 \in Steps /\ 2 \in Steps /\ 3 \in Steps
        BY <2>2, StepsAre
      <4> QED
        BY <1>1, <2>2, <4>1, ChecksList
    <3>2. \A f \in RestsOn \cap Code : f \in {"helper.py", "send_gate.py", "confirm"}
      BY <2>2 DEF RestsOn, Code
    <3>3. ASSUME NEW f \in RestsOn \cap Code PROVE Verdict(f) = 0 /\ f # "icon"
      BY <3>1, <3>2
    <3> QED
      BY <3>3, FitVerdict
  <2> QED
    BY <2>1, <2>2
<1>3. "allowlist" \in RestsOn => Fit("allowlist") /\ Private(files["allowlist"])
  <2>1. SUFFICES ASSUME "allowlist" \in RestsOn PROVE Fit("allowlist") /\ Private(files["allowlist"])
    OBVIOUS
  <2>2. ~Product /\ build = "hardened"
    BY <2>1 DEF RestsOn
  <2>3. 4 \in Steps /\ 5 \in Steps
    BY <2>2, StepsAre
  <2>4. Verdict("allowlist") = 0 /\ Verdict("allowlist_private") = 0
    BY <1>1, <2>2, <2>3, ChecksList
  <2> QED
    BY <2>2, <2>4, ListVerdict
<1>4. \A f \in RestsOn : Fit(f) /\ (f = "allowlist" => Private(files[f]))
  BY <1>2, <1>3 DEF RestsOn, Code
<1>5. Product => bundle.owner # "other" /\ bundle.seals = Signed
  <2>1. SUFFICES ASSUME Product PROVE bundle.owner # "other" /\ bundle.seals = Signed
    OBVIOUS
  <2>2. /\ Verdict("owner") = 0 /\ Verdict("seal_bundle") = 0 /\ Verdict("seal_confirm") = 0
        /\ Verdict("seal_python") = 0
    BY <1>1, <2>1, ChecksList, StepsAre
  <2> QED
    BY <2>2, VerdictIs DEF BundleTyped, Signed
<1>6. ASSUME NEW code \in Faults PROVE ~Fault(code)
  <2>1. CASE code \in {2, 3}
    BY <1>4, <2>1 DEF Fit, Fault
  <2>2. CASE code = 4
    BY <1>4, <1>5, <2>2 DEF Fit, Fault
  <2>3. CASE code \in {5, 6}
    BY <1>4, <2>3 DEF Fit, Fault
  <2>4. CASE code = 10
    BY <1>5, <2>4 DEF Fault
  <2> QED
    BY <2>1, <2>2, <2>3, <2>4 DEF Faults
<1> QED
  BY <1>6 DEF Sound

-----------------------------------------------------------------------------
(* What a step leaves as it is, and where it lands.                        *)

Quiet == UNCHANGED <<build, files, bundle>>

LEMMA QuietSame ==
  ASSUME Quiet
  PROVE  /\ (Product' <=> Product) /\ Checks' = Checks /\ Signed' = Signed
         /\ \A code : Fault(code)' <=> Fault(code)
         /\ Sound' <=> Sound
         /\ \A c : c # "icon" \/ icon' = icon => Verdict(c)' = Verdict(c)
<1> USE DEF Quiet
<1>1. (Product' <=> Product) /\ Checks' = Checks
  BY DEF Product, Checks
<1>2. RestsOn' = RestsOn /\ \A f : MayOwn(f)' = MayOwn(f) /\ (MustExec(f)' <=> MustExec(f))
  BY DEF RestsOn, MayOwn, MustExec, Product
<1>3. \A code : Fault(code)' <=> Fault(code)
  BY <1>1, <1>2 DEF Fault
<1>4. Sound' <=> Sound
  BY <1>3 DEF Sound
<1>5. \A a, owner, exec : ValidateOwnership(a, exec)' = ValidateOwnership(a, exec)
  BY DEF ValidateOwnership
<1>6. CodeOwner' = CodeOwner
  BY DEF CodeOwner
<1>7. \A c : c # "icon" \/ icon' = icon => Verdict(c)' = Verdict(c)
  BY <1>1, <1>5, <1>6 DEF Verdict
<1> QED
  BY <1>1, <1>3, <1>4, <1>7

LEMMA WhoMoves ==
  ASSUME [Next]_vars
  PROVE  \/ UNCHANGED vars
         \/ Begin \/ Check \/ Vouch \/ TooLong \/ Exec
         \/ ReadHelper \/ CheckSendGate \/ ReadSendGate
         \/ LoadPolicy \/ CheckPolicyFile \/ ReadPolicyFile
         \/ ChangeBundle \/ \E f \in Code \cup Policy : ChangeFile(f)
  BY DEF Next

LEMMA Landing ==
  /\ Begin => place'.at = "check" /\ place'.n = 1
  /\ Check =>
       LET code == Verdict(Checks[place.n]) IN
       \/ code = 0 /\ place'.at = "check" /\ place'.n = place.n + 1
       \/ code # 0 /\ place'.at = "exited" /\ place'.n = code
  /\ Vouch => place'.at = "exited" /\ place'.n = 0
  /\ TooLong => place'.at = "exited" /\ place'.n = 7
  /\ Exec =>
       LET python == files["python"] IN
       \/ Opens(python) /\ python.exec /\ place'.at = "launched" /\ place'.n = 0
       \/ ~(Opens(python) /\ python.exec) /\ place'.at = "exited" /\ place'.n = 1
<1>1. \A where, n : At(where, n).at = where /\ At(where, n).n = n
  BY DEF At
<1>2. Begin => place'.at = "check" /\ place'.n = 1
  BY <1>1 DEF Begin
<1>3. Check =>
       LET code == Verdict(Checks[place.n]) IN
       \/ code = 0 /\ place'.at = "check" /\ place'.n = place.n + 1
       \/ code # 0 /\ place'.at = "exited" /\ place'.n = code
  BY <1>1 DEF Check
<1>4. /\ Vouch => place'.at = "exited" /\ place'.n = 0
      /\ TooLong => place'.at = "exited" /\ place'.n = 7
  BY <1>1 DEF Vouch, TooLong
<1>5. Exec =>
       LET python == files["python"] IN
       \/ Opens(python) /\ python.exec /\ place'.at = "launched" /\ place'.n = 0
       \/ ~(Opens(python) /\ python.exec) /\ place'.at = "exited" /\ place'.n = 1
  BY <1>1 DEF Exec
<1> QED
  BY <1>2, <1>3, <1>4, <1>5

\* Where the steps of the helper land.
LEMMA HelperLanding ==
  /\ ReadHelper =>
       /\ place.at = "launched"
       /\ \/ place'.at = "import" /\ place'.n = 1
          \/ ~Readable(files["helper.py"]) /\ place'.at = "raised" /\ place'.n = 0
  /\ CheckSendGate =>
       /\ place.at = "import"
       /\ \/ place'.at = "import" /\ place'.n = 2
          \/ SendGateRejected(files["send_gate.py"]) /\ place'.at = "raised" /\ place'.n = 0
  /\ ReadSendGate =>
       /\ place.at = "import"
       /\ \/ place'.at = "imported" /\ place'.n = 0
          \/ ~Readable(files["send_gate.py"]) /\ place'.at = "raised" /\ place'.n = 0
  /\ LoadPolicy =>
       /\ place.at = "imported" /\ hidden' = Hiding
       /\ \/ BridgeRole = "manager" /\ place'.at = "loaded" /\ place'.n = 0 /\ policy' = OpenPolicy
          \/ BridgeRole # "manager" /\ place'.at = "look" /\ place'.n = 1 /\ policy' = policy
  /\ CheckPolicyFile =>
       /\ place.at = "look" /\ place'.at = "read" /\ place'.n = place.n /\ policy' = policy
       /\ admitted' = ~Rejected(LoadOrder[place.n], files[LoadOrder[place.n]])
  /\ ReadPolicyFile =>
       LET f == LoadOrder[place.n]
       IN  /\ place.at = "read" /\ admitted' = FALSE
           /\ \/ /\ Raises(f, admitted, files[f])
                 /\ place'.at = "raised" /\ place'.n = 0 /\ policy' = policy
              \/ /\ ~Raises(f, admitted, files[f])
                 /\ \/ place.n < 3 /\ place'.at = "look" /\ place'.n = place.n + 1
                    \/ ~(place.n < 3) /\ place'.at = "loaded" /\ place'.n = 0
                 /\ policy' = [policy EXCEPT ![Part(f)] = Value(f, admitted, files[f])]
           /\ slipped' = IF admitted /\ Rejected(f, files[f]) THEN slipped \cup {f} ELSE slipped
<1>1. \A where, n : At(where, n).at = where /\ At(where, n).n = n
  BY DEF At
<1>2. ReadHelper =>
       /\ place.at = "launched"
       /\ \/ place'.at = "import" /\ place'.n = 1
          \/ ~Readable(files["helper.py"]) /\ place'.at = "raised" /\ place'.n = 0
  BY <1>1 DEF ReadHelper
<1>3. CheckSendGate =>
       /\ place.at = "import"
       /\ \/ place'.at = "import" /\ place'.n = 2
          \/ SendGateRejected(files["send_gate.py"]) /\ place'.at = "raised" /\ place'.n = 0
  BY <1>1 DEF CheckSendGate
<1>4. ReadSendGate =>
       /\ place.at = "import"
       /\ \/ place'.at = "imported" /\ place'.n = 0
          \/ ~Readable(files["send_gate.py"]) /\ place'.at = "raised" /\ place'.n = 0
  BY <1>1 DEF ReadSendGate
<1>5. LoadPolicy =>
       /\ place.at = "imported" /\ hidden' = Hiding
       /\ \/ BridgeRole = "manager" /\ place'.at = "loaded" /\ place'.n = 0 /\ policy' = OpenPolicy
          \/ BridgeRole # "manager" /\ place'.at = "look" /\ place'.n = 1 /\ policy' = policy
  BY <1>1 DEF LoadPolicy
<1>6. CheckPolicyFile =>
       /\ place.at = "look" /\ place'.at = "read" /\ place'.n = place.n /\ policy' = policy
       /\ admitted' = ~Rejected(LoadOrder[place.n], files[LoadOrder[place.n]])
  BY <1>1 DEF CheckPolicyFile
<1>7. ASSUME ReadPolicyFile, NEW f, f = LoadOrder[place.n]
      PROVE  /\ place.at = "read" /\ admitted' = FALSE
             /\ \/ /\ Raises(f, admitted, files[f])
                   /\ place'.at = "raised" /\ place'.n = 0 /\ policy' = policy
                \/ /\ ~Raises(f, admitted, files[f])
                   /\ \/ place.n < 3 /\ place'.at = "look" /\ place'.n = place.n + 1
                      \/ ~(place.n < 3) /\ place'.at = "loaded" /\ place'.n = 0
                   /\ policy' = [policy EXCEPT ![Part(f)] = Value(f, admitted, files[f])]
             /\ slipped' = IF admitted /\ Rejected(f, files[f]) THEN slipped \cup {f} ELSE slipped
  BY <1>1, <1>7 DEF ReadPolicyFile
<1> QED
  BY <1>2, <1>3, <1>4, <1>5, <1>6, <1>7

\* What the other steps leave alone of the load.
LEMMA Apart ==
  /\ Check \/ Vouch \/ TooLong \/ Exec \/ ReadHelper \/ CheckSendGate \/ ReadSendGate =>
       /\ policy' = policy /\ admitted' = admitted
       /\ slipped' = slipped /\ hidden' = hidden /\ loosened' = loosened
  /\ LoadPolicy => admitted' = admitted /\ slipped' = slipped /\ loosened' = loosened
  /\ CheckPolicyFile => slipped' = slipped /\ hidden' = hidden /\ loosened' = loosened
  /\ ReadPolicyFile => hidden' = hidden /\ loosened' = loosened
  /\ UNCHANGED vars \/ ChangeBundle =>
       /\ place' = place /\ policy' = policy /\ admitted' = admitted
       /\ slipped' = slipped /\ hidden' = hidden /\ loosened' = loosened
  /\ Begin => /\ policy' = NoPolicy /\ admitted' = FALSE
              /\ slipped' = {} /\ hidden' = {} /\ loosened' = FALSE
  /\ (\E f \in Code \cup Policy : ChangeFile(f)) =>
       /\ place' = place /\ policy' = policy /\ admitted' = admitted
       /\ slipped' = slipped /\ hidden' = hidden \cap Hiding'
<1>1. Check \/ Vouch \/ TooLong \/ Exec \/ ReadHelper \/ CheckSendGate \/ ReadSendGate =>
       /\ policy' = policy /\ admitted' = admitted
       /\ slipped' = slipped /\ hidden' = hidden /\ loosened' = loosened
  BY DEF load, Check, Vouch, TooLong, Exec, ReadHelper, CheckSendGate, ReadSendGate
<1>2. /\ LoadPolicy => admitted' = admitted /\ slipped' = slipped /\ loosened' = loosened
      /\ CheckPolicyFile => slipped' = slipped /\ hidden' = hidden /\ loosened' = loosened
      /\ ReadPolicyFile => hidden' = hidden /\ loosened' = loosened
  BY DEF LoadPolicy, CheckPolicyFile, ReadPolicyFile
<1>3. UNCHANGED vars \/ ChangeBundle =>
       /\ place' = place /\ policy' = policy /\ admitted' = admitted
       /\ slipped' = slipped /\ hidden' = hidden /\ loosened' = loosened
  BY DEF vars, load, ChangeBundle
<1>4. Begin => /\ policy' = NoPolicy /\ admitted' = FALSE
               /\ slipped' = {} /\ hidden' = {} /\ loosened' = FALSE
  BY DEF Begin
<1>5. (\E f \in Code \cup Policy : ChangeFile(f)) =>
       /\ place' = place /\ policy' = policy /\ admitted' = admitted
       /\ slipped' = slipped /\ hidden' = hidden \cap Hiding'
  BY DEF ChangeFile
<1> QED
  BY <1>1, <1>2, <1>3, <1>4, <1>5

\* What a step may do to the rest.
LEMMA Frame ==
  ASSUME [Next]_vars
  PROVE  /\ build' = build
         /\ bundle' = bundle \/ ChangeBundle
         /\ files' = files \/ \E f \in Code \cup Policy : ChangeFile(f)
         /\ \/ changes' = changes
            \/ changes' <= MaxChanges /\ changes' \in {changes + 1, changes + MaxChanges}
         /\ icon' \in {icon, There(files["icon"])}
         /\ dry' = dry \/ dry' \in BOOLEAN
         /\ calm' \in {calm, TRUE, FALSE} /\ vouched' \in {vouched, calm, FALSE}
<1>1. CASE ChangeBundle
  BY <1>1 DEF ChangeBundle, Spends
<1>2. CASE \E f \in Code \cup Policy : ChangeFile(f)
  <2>1. /\ build' = build /\ bundle' = bundle /\ icon' = icon /\ dry' = dry
        /\ changes' <= MaxChanges /\ changes' \in {changes + 1, changes + MaxChanges}
        /\ calm' = FALSE /\ vouched' = FALSE
    BY <1>2 DEF ChangeFile, Spends, Cost
  <2> QED
    BY <1>2, <2>1
<1>3. CASE Begin \/ Check \/ Vouch \/ TooLong \/ Exec
  <2>1. build' = build /\ bundle' = bundle /\ files' = files /\ changes' = changes
    BY <1>3 DEF Begin, Check, Vouch, TooLong, Exec
  <2>2. icon' \in {icon, There(files["icon"])}
    BY <1>3 DEF Begin, Check, Vouch, TooLong, Exec
  <2>3. dry' = dry \/ dry' \in BOOLEAN
    BY <1>3 DEF Begin, Check, Vouch, TooLong, Exec
  <2>4. calm' \in {calm, TRUE, FALSE} /\ vouched' \in {vouched, calm, FALSE}
    BY <1>3 DEF Begin, Check, Vouch, TooLong, Exec
  <2> QED
    BY <2>1, <2>2, <2>3, <2>4
<1>4. CASE UNCHANGED vars \/ ReadHelper \/ CheckSendGate \/ ReadSendGate
           \/ LoadPolicy \/ CheckPolicyFile \/ ReadPolicyFile
  <2>1. UNCHANGED <<build, files, bundle, icon, dry, changes, calm, vouched>>
    BY <1>4 DEF vars, ReadHelper, CheckSendGate, ReadSendGate, LoadPolicy, CheckPolicyFile,
                ReadPolicyFile
  <2> QED
    BY <2>1
<1> QED
  BY <1>1, <1>2, <1>3, <1>4, WhoMoves

-----------------------------------------------------------------------------
(* Types.                                                                  *)

FilesTyped == DOMAIN files = Code \cup Policy /\ \A f \in DOMAIN files : files[f] \in Artefact(f)

LEMMA InstalledTyped ==
  ASSUME NEW f \in Code \cup Policy, NEW c \in Contents(f)
  PROVE  Installed(f, c) \in Artefact(f)
<1>1. (IF build = "hardened" /\ f \in Code \cup {"allowlist"} THEN "root" ELSE "user") \in Owners
  BY DEF Owners
<1>2. (IF f \in Policy THEN "private" ELSE "shared") \in Accesses
  BY DEF Accesses
<1>3. (f \in {"confirm", "python"}) \in IF f \in Code THEN BOOLEAN ELSE {FALSE}
  <2>1. CASE f \in Code
    BY <2>1
  <2>2. CASE f \notin Code
    <3>1. (f \in {"confirm", "python"}) = FALSE
      BY <2>2 DEF Code
    <3> QED
      BY <2>2, <3>1
  <2> QED
    BY <2>1, <2>2
<1> DEFINE o == IF build = "hardened" /\ f \in Code \cup {"allowlist"} THEN "root" ELSE "user"
           s == IF f \in Policy THEN "private" ELSE "shared"
           e == f \in {"confirm", "python"}
           E == IF f \in Code THEN BOOLEAN ELSE {FALSE}
<1>4. Installed(f, c) = [kind |-> "file", owner |-> o, access |-> s, exec |-> e, content |-> c]
  BY DEF Installed
<1>5. [kind : {"file", "link", "directory"}, owner : Owners, access : Accesses,
       exec : E, content : Contents(f)] \subseteq Artefact(f)
  BY DEF Artefact
<1> HIDE DEF o, s, e, E
<1>6. o \in Owners /\ s \in Accesses /\ e \in E
  BY <1>1, <1>2, <1>3 DEF o, s, e, E
<1>7. [kind |-> "file", owner |-> o, access |-> s, exec |-> e, content |-> c] \in
        [kind : {"file", "link", "directory"}, owner : Owners, access : Accesses,
         exec : E, content : Contents(f)]
  BY <1>6
<1> QED
  BY <1>4, <1>5, <1>7

LEMMA FilesStep ==
  ASSUME FilesTyped, [Next]_vars
  PROVE  FilesTyped'
<1>1. ASSUME NEW f \in Code \cup Policy, ChangeFile(f) PROVE FilesTyped'
  <2>1. PICK a \in Artefact(f) : files' = [files EXCEPT ![f] = a]
    BY <1>1 DEF ChangeFile
  <2>2. DOMAIN files' = DOMAIN files
    BY <2>1
  <2>3. \A g \in DOMAIN files : files'[g] = IF g = f THEN a ELSE files[g]
    BY <2>1
  <2> QED
    BY <2>2, <2>3 DEF FilesTyped
<1>2. ASSUME files' = files PROVE FilesTyped'
  <2>1. \A f : Artefact(f)' = Artefact(f)
    BY DEF Artefact, Contents
  <2> QED
    BY <1>2, <2>1 DEF FilesTyped
<1> QED
  BY <1>1, <1>2, Frame

LEMMA ModeFile ==
  ASSUME FilesTyped
  PROVE  There(files["read_policy"]) =>
           /\ files["read_policy"].content \in {"allowlist", "blocklist", "garbage", "binary"}
           /\ files["read_policy"].kind \in {"file", "link", "directory"}
<1>1. files["read_policy"] \in Artefact("read_policy")
  BY DEF FilesTyped, Policy
<1>2. Contents("read_policy") = {"allowlist", "blocklist", "garbage", "binary"}
  BY DEF Contents
<1>3. files["read_policy"] \in {Missing} \/
        /\ files["read_policy"].content \in Contents("read_policy")
        /\ files["read_policy"].kind \in {"file", "link", "directory"}
  BY <1>1 DEF Artefact
<1>4. ~There(Missing)
  BY DEF There, Missing
<1> QED
  BY <1>2, <1>3, <1>4

\* What a file gives is of the policy's type, unless its reading raises.
LEMMA ModeTyped ==
  ASSUME FilesTyped, NEW ok \in BOOLEAN, ~Raises("read_policy", ok, files["read_policy"])
  PROVE  /\ ReadMode(ok, files["read_policy"]) \in {"allowlist", "blocklist"}
         /\ build = "hardened" => ReadMode(ok, files["read_policy"]) = "allowlist"
<1>1. CASE build = "hardened"
  BY <1>1, HardenedEnvironment DEF ReadMode
<1>2. CASE build # "hardened"
  BY <1>2, WhichEnvironment, ModeFile DEF ReadMode, Raises
<1> QED
  BY <1>1, <1>2

LEMMA ListTyped ==
  ASSUME FilesTyped, NEW f \in {"blocklist", "allowlist"}, NEW ok \in BOOLEAN,
         ~Raises(f, ok, files[f])
  PROVE  LoadList(ok, files[f]) \in SUBSET Ids
<1>1. files[f] \in Artefact(f)
  BY DEF FilesTyped, Policy
<1>2. Contents(f) = SUBSET Ids
  BY DEF Contents
<1>3. There(files[f]) => files[f].content \in SUBSET Ids
  <2>1. files[f] \in {Missing} \/ files[f].content \in Contents(f)
    BY <1>1 DEF Artefact
  <2>2. ~There(Missing)
    BY DEF There, Missing
  <2> QED
    BY <1>2, <2>1, <2>2
<1>4. ok => There(files[f])
  BY DEF Raises, Readable, Opens, There
<1> QED
  BY <1>3, <1>4 DEF LoadList

LEMMA Order ==
  LoadOrder[1] = "read_policy" /\ LoadOrder[2] = "blocklist" /\ LoadOrder[3] = "allowlist"
  BY DEF LoadOrder

PolicyTyped(p) ==
  p \in [mode : {"none", "allowlist", "blocklist"}, blocklist : SUBSET Ids, allowlist : SUBSET Ids]

\* One more part of the policy.
LEMMA PartRead ==
  ASSUME FilesTyped, PolicyTyped(policy), NEW k \in 1 .. 3, NEW ok \in BOOLEAN, NEW f,
         f = LoadOrder[k], ~Raises(f, ok, files[f]), NEW p,
         p = [policy EXCEPT ![Part(f)] = Value(f, ok, files[f])]
  PROVE  /\ PolicyTyped(p)
         /\ k = 1 => p.mode # "none" /\ (build = "hardened" => p.mode = "allowlist")
         /\ k # 1 => p.mode = policy.mode
<1>1. k \in {1, 2, 3}
  OBVIOUS
<1>2. CASE k = 1
  <2>1. p = [policy EXCEPT !["mode"] = ReadMode(ok, files["read_policy"])]
    BY <1>2, Order DEF Part, Value
  <2> QED
    BY <1>2, <2>1, Order, ModeTyped DEF PolicyTyped
<1>3. CASE k \in {2, 3}
  <2>0. f \in {"blocklist", "allowlist"}
    BY <1>3, Order
  <2>1. p = [policy EXCEPT ![f] = LoadList(ok, files[f])]
    BY <2>0 DEF Part, Value
  <2>2. LoadList(ok, files[f]) \in SUBSET Ids
    BY <2>0, ListTyped
  <2> QED
    BY <1>3, <2>0, <2>1, <2>2 DEF PolicyTyped
<1> QED
  BY <1>1, <1>2, <1>3

LEMMA ChecksBounded ==
  Len(Checks) \in 3 .. 10 /\ (~Product => Len(Checks) \in 3 .. 5)
  BY ChecksList

LEMMA VerdictsAreCodes ==
  \A c \in {"owner", "icon_there", "seal_bundle", "seal_confirm", "seal_python", "allowlist",
            "allowlist_private"} \cup Code : Verdict(c) \in {0} \cup Faults
<1>1. \A a, owner : \A exec \in BOOLEAN : ValidateFile(a, owner, exec) \in {0, 2, 3, 4, 5, 6}
  BY DEF ValidateFile
<1>2. \A a : \A exec \in BOOLEAN : ValidateOwnership(a, exec) \in {0, 2, 3, 4, 5, 6}
  BY DEF ValidateOwnership
<1>3. \A a : ValidatePrivate(a) \in {0, 5}
  BY DEF ValidatePrivate
<1>4. ASSUME NEW c \in Code PROVE Verdict(c) \in {0, 2, 3, 4, 5, 6}
  <2> DEFINE e == c = "confirm"
             x == c \in {"confirm", "python"}
  <2>1. e \in BOOLEAN /\ x \in BOOLEAN
    OBVIOUS
  <2>2. \/ Verdict(c) = 0
        \/ Verdict(c) = ValidateFile(files[c], CodeOwner, e)
        \/ Verdict(c) = ValidateOwnership(files[c], x)
    BY DEF Verdict, Code
  <2> HIDE DEF e, x
  <2> QED
    BY <1>1, <1>2, <2>1, <2>2
<1>5. Verdict("allowlist") \in {0, 2, 3, 4, 5, 6} /\ Verdict("allowlist_private") \in {0, 5}
  BY <1>1, <1>3, VerdictIs
<1>6. \A c \in {"owner", "icon_there", "seal_bundle", "seal_confirm", "seal_python"} :
        Verdict(c) \in {0, 4, 10}
  BY VerdictIs
<1> QED
  BY <1>4, <1>5, <1>6 DEF Faults

LEMMA ChecksAre ==
  ASSUME NEW k \in Steps
  PROVE  Checks[k] \in {"owner", "icon_there", "seal_bundle", "seal_confirm", "seal_python", "allowlist",
                        "allowlist_private"} \cup Code
<1>1. CASE Product
  <2>1. k \in {1, 2, 3, 4, 5, 6, 7, 8, 9, 10}
    BY <1>1, StepsAre
  <2> QED
    BY <1>1, <2>1, ChecksList DEF Code
<1>2. CASE ~Product /\ build = "hardened"
  <2>1. k \in {1, 2, 3, 4, 5}
    BY <1>2, StepsAre
  <2> QED
    BY <1>2, <2>1, ChecksList DEF Code
<1>3. CASE ~Product /\ build # "hardened"
  <2>1. k \in {1, 2, 3}
    BY <1>3, StepsAre
  <2> QED
    BY <1>3, <2>1, ChecksList DEF Code
<1> QED
  BY <1>1, <1>2, <1>3

\* A file that has not changed is judged as before.
LEMMA SameRejected ==
  ASSUME build' = build, NEW f, files'[f] = files[f]
  PROVE  /\ Rejected(f, files[f])' = Rejected(f, files[f])
         /\ Effective(f)' = Effective(f)
         /\ Value(f, FALSE, files[f])' = Value(f, FALSE, files[f])
<1>1. ProductMode' = ProductMode /\ RootRequired' = RootRequired /\ Override' = Override
  <2>1. Environment' = Environment
    BY SameEnvironment
  <2> QED
    BY <2>1 DEF ProductMode, RootRequired, Override, Env
<1>2. ModeRejected(files[f])' = ModeRejected(files[f])
  BY <1>1 DEF ModeRejected
<1>3. ListRejected(files[f], FALSE, ProductMode)' = ListRejected(files[f], FALSE, ProductMode)
  BY <1>1 DEF ListRejected
<1>4. ListRejected(files[f], RootRequired, ProductMode)' =
        ListRejected(files[f], RootRequired, ProductMode)
  BY <1>1 DEF ListRejected
<1>5. Rejected(f, files[f])' = Rejected(f, files[f])
  BY <1>2, <1>3, <1>4 DEF Rejected
<1>6. ASSUME NEW ok PROVE ReadMode(ok, files[f])' = ReadMode(ok, files[f])
  BY <1>1 DEF ReadMode
<1>7. (~Rejected(f, files[f]))' = (~Rejected(f, files[f]))
  BY <1>5
<1>8. Effective(f)' = Effective(f)
  BY <1>1, <1>7 DEF Effective, Value, ReadMode, LoadList
<1>9. Value(f, FALSE, files[f])' = Value(f, FALSE, files[f])
  BY <1>1 DEF Value, ReadMode, LoadList
<1> QED
  BY <1>5, <1>8, <1>9

\* The load, step by step.
LEMMA LoadStep ==
  ASSUME LaunchInv, [Next]_vars
  PROVE  /\ PolicyTyped(policy') /\ LoadOK'
         /\ slipped' \subseteq Policy /\ hidden' \subseteq Ids
         /\ admitted' \in BOOLEAN /\ loosened' \in BOOLEAN
<1>0. /\ FilesTyped /\ PolicyTyped(policy) /\ LoadOK
      /\ slipped \subseteq Policy /\ hidden \subseteq Ids
      /\ admitted \in BOOLEAN /\ loosened \in BOOLEAN
  BY DEF LaunchInv, LaunchTypeOK, FilesTyped, PolicyTyped
<1>1. build' = build /\ (BridgeRole # "manager" => build # "manager")
  <2>1. build = "manager" => BridgeRole = "manager"
    <3>1. SUFFICES ASSUME build = "manager" PROVE BridgeRole = "manager"
      OBVIOUS
    <3>2. Environment = [IMESSAGE_PRODUCT_ID |-> "set", IMESSAGE_SEND_GATE_PATH |-> "set",
                         IMESSAGE_BRIDGE_ROLE |-> "manager"]
      BY <3>1 DEF Environment, Product
    <3> QED
      BY <3>2 DEF BridgeRole, Env
  <2> QED
    BY <2>1, Frame
<1>2. (build = "hardened" => BridgeRole # "manager") /\ (build # "manager" => BridgeRole # "manager")
  BY WhichEnvironment
<1>3. hidden' \subseteq Ids
  <2>1. Hiding \subseteq Ids
    BY DEF Hiding
  <2>2. hidden' \in {hidden, {}, Hiding} \/ hidden' = hidden \cap Hiding'
    BY WhoMoves, Apart, HelperLanding
  <2> QED
    BY <1>0, <2>1, <2>2
<1>4. loosened' \in BOOLEAN
  <2>1. (\E f \in Code \cup Policy : ChangeFile(f)) => loosened' \in BOOLEAN
    BY DEF ChangeFile
  <2>2. ~(\E f \in Code \cup Policy : ChangeFile(f)) => loosened' \in {loosened, FALSE}
    BY WhoMoves, Apart
  <2> QED
    BY <1>0, <2>1, <2>2
<1>5. admitted' \in BOOLEAN
  <2>1. ~CheckPolicyFile => admitted' \in {admitted, FALSE}
    BY WhoMoves, Apart, HelperLanding
  <2>2. CheckPolicyFile => admitted' \in BOOLEAN
    BY DEF CheckPolicyFile
  <2> QED
    BY <1>0, <2>1, <2>2
<1>6. CASE UNCHANGED vars \/ ChangeBundle \/ \E f \in Code \cup Policy : ChangeFile(f)
  <2>1. place' = place /\ policy' = policy /\ admitted' = admitted /\ slipped' = slipped
    BY <1>6, Apart
  <2>2. (calm' => calm) /\ (calm' => files' = files)
    <3>1. (\E f \in Code \cup Policy : ChangeFile(f)) => calm' = FALSE
      BY DEF ChangeFile
    <3>2. UNCHANGED vars \/ ChangeBundle => files' = files /\ (calm' => calm)
      BY DEF vars, ChangeBundle
    <3> QED
      BY <1>6, <3>1, <3>2
  <2>3. ASSUME place.at = "read", calm', NEW f, f = LoadOrder[place.n]
        PROVE  admitted' <=> ~Rejected(f, files[f])'
    <3>1. admitted <=> ~Rejected(f, files[f])
      BY <1>0, <2>2, <2>3 DEF LoadOK
    <3>2. files' = files
      BY <2>2, <2>3
    <3>3. Rejected(f, files[f])' = Rejected(f, files[f])
      BY <1>1, <3>2, SameRejected
    <3> QED
      BY <2>1, <3>1, <3>3
  <2>4. LoadOrder' = LoadOrder
    BY DEF LoadOrder
  <2>5. LoadOK'
    BY <1>0, <1>1, <2>1, <2>3, <2>4 DEF LoadOK, Loading
  <2> QED
    BY <1>0, <1>3, <1>4, <1>5, <2>1, <2>5
<1>7. CASE Begin \/ Check \/ Vouch \/ TooLong \/ Exec
  <2>1. policy' = policy \/ policy' = NoPolicy
    BY <1>7, Apart
  <2>2. slipped' = slipped \/ slipped' = {}
    BY <1>7, Apart
  <2>3. place'.at \in {"check", "exited", "launched"}
    BY <1>7, Landing
  <2>4. PolicyTyped(NoPolicy)
    BY DEF PolicyTyped, NoPolicy
  <2>5. LoadOK'
    BY <2>3 DEF LoadOK, Loading
  <2> QED
    BY <1>0, <1>3, <1>4, <1>5, <2>1, <2>2, <2>4, <2>5
<1>8. CASE ReadHelper \/ CheckSendGate \/ ReadSendGate
  <2>1. policy' = policy /\ slipped' = slipped
    BY <1>8, Apart
  <2>2. place'.at \in {"imported", "raised"} \/ (place'.at = "import" /\ place'.n \in 1 .. 2)
    BY <1>8, HelperLanding
  <2>3. LoadOK'
    BY <2>2 DEF LoadOK, Loading
  <2> QED
    BY <1>0, <1>3, <1>4, <1>5, <2>1, <2>3
<1>9. CASE LoadPolicy
  <2>1. slipped' = slipped
    BY <1>9, Apart
  <2>2. PolicyTyped(OpenPolicy) /\ OpenPolicy.mode = "blocklist"
    BY DEF PolicyTyped, OpenPolicy
  <2>3. \/ place'.at = "loaded" /\ policy' = OpenPolicy /\ BridgeRole = "manager"
        \/ place'.at = "look" /\ place'.n = 1 /\ policy' = policy /\ BridgeRole # "manager"
    BY <1>9, HelperLanding
  <2>4. LoadOK'
    BY <1>1, <1>2, <2>2, <2>3 DEF LoadOK, Loading
  <2> QED
    BY <1>0, <1>3, <1>4, <1>5, <2>1, <2>2, <2>3, <2>4
<1>10. CASE CheckPolicyFile
  <2> DEFINE f == LoadOrder[place.n]
  <2>1. slipped' = slipped
    BY <1>10, Apart
  <2>2. /\ place.at = "look" /\ place'.at = "read" /\ place'.n = place.n /\ policy' = policy
        /\ admitted' <=> ~Rejected(f, files[f])
    BY <1>10, HelperLanding
  <2>3. files' = files /\ LoadOrder' = LoadOrder
    BY <1>10 DEF CheckPolicyFile, LoadOrder
  <2>5. ASSUME NEW g PROVE Rejected(g, files[g])' = Rejected(g, files[g])
    BY <1>1, <2>3, SameRejected
  <2>6. LoadOK'
    BY <1>0, <1>1, <2>2, <2>3, <2>5 DEF LoadOK, Loading
  <2> QED
    BY <1>0, <1>3, <1>4, <1>5, <2>1, <2>2, <2>6
<1>11. CASE ReadPolicyFile
  <2> DEFINE n == place.n
             f == LoadOrder[place.n]
  <2>1. place.at = "read" /\ n \in 1 .. 3 /\ build # "manager"
    BY <1>0, <1>11, HelperLanding DEF LoadOK, Loading
  <2>2. f \in Policy
    BY <2>1, Order DEF Policy
  <2>3. slipped' \subseteq Policy
    BY <1>0, <1>11, <2>2, HelperLanding
  <2>4. CASE Raises(f, admitted, files[f])
    <3>1. place'.at = "raised" /\ policy' = policy
      BY <1>11, <2>4, HelperLanding
    <3>2. LoadOK'
      BY <3>1 DEF LoadOK, Loading
    <3> QED
      BY <1>0, <1>3, <1>4, <1>5, <2>3, <3>1, <3>2
  <2>5. CASE ~Raises(f, admitted, files[f])
    <3>1. /\ \/ n < 3 /\ place'.at = "look" /\ place'.n = n + 1
             \/ ~(n < 3) /\ place'.at = "loaded" /\ place'.n = 0
          /\ policy' = [policy EXCEPT ![Part(f)] = Value(f, admitted, files[f])]
      BY <1>11, <2>5, HelperLanding
    <3>2. /\ PolicyTyped(policy')
          /\ n = 1 => policy'.mode # "none" /\ (build = "hardened" => policy'.mode = "allowlist")
          /\ n # 1 => policy'.mode = policy.mode
      BY <1>0, <2>1, <2>5, <3>1, PartRead
    <3>3. n # 1 => policy.mode # "none" /\ (build = "hardened" => policy.mode = "allowlist")
      <4> HIDE DEF n
      <4>1. n # 1 => n > 1
        BY <2>1
      <4> QED
        BY <1>0, <2>1, <4>1 DEF LoadOK, Loading, n
    <3>4. n + 1 \in 1 .. 3 \/ ~(n < 3)
      <4> HIDE DEF n
      <4> QED
        BY <2>1
    <3>5. place'.at = "look" => place'.n \in 1 .. 3
      BY <3>1, <3>4
    <3>6. policy'.mode # "none" /\ (build' = "hardened" => policy'.mode = "allowlist")
      BY <1>1, <3>2, <3>3
    <3>7. LoadOK'
      BY <1>1, <2>1, <3>1, <3>5, <3>6 DEF LoadOK, Loading
    <3> QED
      BY <1>3, <1>4, <1>5, <2>3, <3>2, <3>7
  <2> QED
    BY <2>4, <2>5
<1> QED
  BY <1>6, <1>7, <1>8, <1>9, <1>10, <1>11, WhoMoves

LEMMA TypeStep ==
  ASSUME LaunchInv, [Next]_vars
  PROVE  LaunchTypeOK' /\ FilesTyped'
<1>0. /\ LaunchTypeOK /\ FilesTyped
      /\ place.at = "check" => place.n \in 1 .. Len(Checks) + 1
  BY DEF LaunchInv, LaunchTypeOK, FilesTyped, PassedOK
<1>1. FilesTyped'
  BY <1>0, FilesStep
<1>2. build' \in Builds /\ bundle' \in [owner : Owners, seals : SUBSET Signed]
  <2>1. ASSUME ChangeBundle PROVE bundle' \in [owner : Owners, seals : SUBSET Signed]
    BY <2>1 DEF ChangeBundle
  <2> QED
    BY <1>0, <2>1, Frame DEF LaunchTypeOK
<1>3. place'.at \in {"idle", "check", "exited"} \cup Launched /\ place'.n \in 0 .. 11
  <2>0. Launched = {"launched", "import", "imported", "look", "read", "loaded", "raised"}
    BY DEF Launched
  <2>1. place.n \in 0 .. 11 /\ place.at \in {"idle", "check", "exited"} \cup Launched
    BY <1>0 DEF LaunchTypeOK
  <2>2. CASE UNCHANGED vars \/ ChangeBundle \/ \E f \in Code \cup Policy : ChangeFile(f)
    BY <2>1, <2>2, Apart
  <2>3. CASE Begin \/ Vouch \/ TooLong \/ Exec
    BY <2>0, <2>3, Landing
  <2>4. CASE Check
    <3>1. place.at = "check" /\ place.n \in Steps
      <4>1. place.at = "check" /\ place.n <= Len(Checks)
        BY <2>4 DEF Check
      <4> QED
        BY <1>0, <4>1, ChecksBounded DEF Steps
    <3>2. Verdict(Checks[place.n]) \in {0} \cup Faults
      BY <3>1, ChecksAre, VerdictsAreCodes
    <3>4. \/ place'.at = "check" /\ place'.n = place.n + 1
          \/ place'.at = "exited" /\ place'.n \in Faults
      BY <2>4, <3>2, Landing
    <3>5. place.n + 1 \in 0 .. 11
      <4> DEFINE n == place.n
                 l == Len(Checks)
      <4>1. l \in 3 .. 10 /\ n \in 1 .. l
        BY <3>1, ChecksBounded DEF Steps
      <4> HIDE DEF n, l
      <4>2. n + 1 \in 0 .. 11
        BY <4>1
      <4> QED
        BY <4>2 DEF n
    <3> QED
      BY <3>4, <3>5 DEF Faults
  <2>5. CASE ReadHelper \/ CheckSendGate \/ ReadSendGate \/ LoadPolicy \/ CheckPolicyFile
    BY <2>0, <2>1, <2>5, HelperLanding
  <2>6. CASE ReadPolicyFile
    <3> DEFINE n == place.n
    <3>1. n \in 0 .. 11
      BY <2>1
    <3>2. place'.at \in {"raised", "look", "loaded"} /\ (place'.n = 0 \/ (n < 3 /\ place'.n = n + 1))
      BY <2>6, HelperLanding
    <3> HIDE DEF n
    <3>3. place'.n \in 0 .. 11
      BY <3>1, <3>2
    <3> QED
      BY <2>0, <3>2, <3>3
  <2> QED
    BY <2>2, <2>3, <2>4, <2>5, <2>6, WhoMoves
<1>4. changes' \in 0 .. MaxChanges
  <2>1. changes \in 0 .. MaxChanges
    BY <1>0 DEF LaunchTypeOK
  <2>2. \/ changes' = changes
        \/ changes' <= MaxChanges /\ changes' \in {changes + 1, changes + MaxChanges}
    BY Frame
  <2> QED
    BY <2>1, <2>2, MaxChangesNat
<1>5. icon' \in BOOLEAN /\ dry' \in BOOLEAN /\ calm' \in BOOLEAN /\ vouched' \in BOOLEAN
  <2>0. icon \in BOOLEAN /\ dry \in BOOLEAN /\ calm \in BOOLEAN /\ vouched \in BOOLEAN
    BY <1>0 DEF LaunchTypeOK
  <2>2. There(files["icon"]) \in BOOLEAN
    BY DEF There
  <2> QED
    BY <2>0, <2>2, Frame
<1>6. PolicyTyped(policy') /\ LoadOK'
  BY LoadStep
<1>7. place'.at = "loaded" => policy'.mode # "none"
  BY <1>6 DEF LoadOK
<1>8. slipped' \subseteq Policy /\ hidden' \subseteq Ids /\ admitted' \in BOOLEAN /\ loosened' \in BOOLEAN
  BY LoadStep
<1> QED
  BY <1>1, <1>2, <1>3, <1>4, <1>5, <1>6, <1>7, <1>8
     DEF LaunchTypeOK, FilesTyped, PolicyTyped, Launched

-----------------------------------------------------------------------------
(* While nothing changes, what has been checked still holds.               *)

LEMMA StirredStep ==
  ASSUME LaunchInv, [Next]_vars
  PROVE  /\ Quiet \/ (calm' = FALSE /\ vouched' = FALSE /\ place' = place /\ dry' = dry /\ icon' = icon
                      /\ build' = build)
         /\ ~Check => icon' = icon
         /\ ~Begin => dry' = dry /\ (calm' => calm)
         /\ ~Vouch => (vouched' => vouched)
<1>0. calm \in BOOLEAN /\ vouched \in BOOLEAN
  BY DEF LaunchInv, LaunchTypeOK
<1>1. CASE ChangeBundle \/ \E f \in Code \cup Policy : ChangeFile(f)
  <2>1. /\ calm' = FALSE /\ vouched' = FALSE /\ place' = place /\ dry' = dry /\ icon' = icon
        /\ build' = build
    BY <1>1 DEF ChangeBundle, ChangeFile
  <2> QED
    BY <2>1
<1>2. CASE Begin
  <2>1. Quiet /\ icon' = icon /\ vouched' = vouched
    BY <1>2 DEF Quiet, Begin
  <2> QED
    BY <1>2, <2>1
<1>3. CASE Check
  <2>1. Quiet /\ dry' = dry /\ vouched' = vouched /\ calm' = calm
    BY <1>3 DEF Quiet, Check
  <2> QED
    BY <1>3, <2>1
<1>4. CASE Vouch
  <2>1. Quiet /\ dry' = dry /\ icon' = icon /\ calm' = calm
    BY <1>4 DEF Quiet, Vouch
  <2> QED
    BY <1>4, <2>1
<1>5. CASE UNCHANGED vars \/ TooLong \/ Exec \/ ReadHelper \/ CheckSendGate \/ ReadSendGate
           \/ LoadPolicy \/ CheckPolicyFile \/ ReadPolicyFile
  <2>1. Quiet /\ dry' = dry /\ icon' = icon /\ calm' = calm /\ vouched' = vouched
    BY <1>5 DEF Quiet, vars, TooLong, Exec, ReadHelper, CheckSendGate, ReadSendGate,
                LoadPolicy, CheckPolicyFile, ReadPolicyFile
  <2> QED
    BY <2>1
<1> QED
  BY <1>1, <1>2, <1>3, <1>4, <1>5, WhoMoves

LEMMA PassedStep ==
  ASSUME LaunchInv, [Next]_vars
  PROVE  PassedOK'
<1>0. /\ place.at = "check" => place.n \in 1 .. Len(Checks) + 1
      /\ place.at = "check" /\ calm => Passed(place.n)
      /\ place.at = "check" /\ calm /\ Product /\ place.n > 2 => icon = There(files["icon"])
      /\ icon \in BOOLEAN
  BY DEF LaunchInv, PassedOK, Passed, LaunchTypeOK
<1>1. CASE Begin
  <2>1. place'.n = 1 /\ Quiet
    BY <1>1, Landing DEF Begin, Quiet
  <2>2. Len(Checks)' = Len(Checks) /\ Len(Checks) \in 3 .. 10
    BY <2>1, QuietSame, ChecksBounded
  <2>3. place'.n \in 1 .. Len(Checks)' + 1 /\ ~(place'.n > 2)
    BY <2>1, <2>2
  <2>4. 1 .. place'.n - 1 = {}
    BY <2>1
  <2> QED
    BY <2>3, <2>4 DEF PassedOK
<1>2. CASE Check /\ place'.at = "check"
  <2> DEFINE n == place.n
             l == Len(Checks)
  <2>1. /\ place.at = "check" /\ n <= l /\ Quiet
        /\ icon' = IF Checks[n] = "icon_there" THEN There(files["icon"]) ELSE icon
        /\ calm' = calm
    BY <1>2 DEF Check, Quiet
  <2>2. Verdict(Checks[n]) = 0 /\ place'.n = n + 1
    BY <1>2, Landing
  <2>3. n \in Nat /\ n \in 1 .. l /\ l \in 3 .. 10
    BY <1>0, <2>1, ChecksBounded
  <2>4. Checks' = Checks /\ n \in Steps
    BY <2>1, <2>3, QuietSame DEF Steps
  <2> HIDE DEF n, l
  <2>5. place'.n \in 1 .. l + 1 /\ n + 1 - 1 = n
    BY <2>2, <2>3
  <2>6. ASSUME calm, NEW k \in 1 .. n PROVE Verdict(Checks[k])' = 0
    <3>1. Verdict(Checks[k]) = 0
      <4>1. k = n \/ k \in 1 .. n - 1
        BY <2>3
      <4>2. Passed(n)
        BY <1>0, <2>1, <2>6 DEF n
      <4> QED
        BY <2>2, <4>1, <4>2 DEF Passed
    <3>2. Checks[k] # "icon" \/ icon' = icon
      <4>1. CASE Product /\ n = 2
        <5>1. k \in {1, 2}
          BY <4>1
        <5> QED
          BY <4>1, <5>1, ChecksList
      <4>2. CASE Product /\ n # 2
        <5>1. n \in {1, 3, 4, 5, 6, 7, 8, 9, 10}
          BY <2>4, <4>2, StepsAre
        <5>2. Checks[n] # "icon_there"
          BY <4>2, <5>1, ChecksList
        <5> QED
          BY <2>1, <5>2
      <4>3. CASE ~Product
        <5>1. n \in {1, 2, 3} \/ (build = "hardened" /\ n \in {4, 5})
          BY <2>4, <4>3, StepsAre
        <5>2. Checks[n] # "icon_there"
          BY <4>3, <5>1, ChecksList
        <5> QED
          BY <2>1, <5>2
      <4> QED
        BY <4>1, <4>2, <4>3
    <3>3. Verdict(Checks[k])' = Verdict(Checks[k])
      BY <2>1, <2>4, <3>2, QuietSame
    <3> QED
      BY <3>1, <3>3
  <2>7. ASSUME calm, Product, n + 1 > 2 PROVE icon' = There(files["icon"])
    <3>1. CASE n = 2
      BY <2>1, <2>7, <3>1, ChecksList
    <3>2. CASE n # 2
      <4>1. n > 2
        BY <2>3, <2>7, <3>2
      <4>2. icon = There(files["icon"])
        BY <1>0, <2>1, <2>7, <4>1 DEF n
      <4> QED
        BY <2>1, <4>2
    <3> QED
      BY <3>1, <3>2
  <2>8. (Product' <=> Product) /\ Len(Checks)' = l /\ files' = files /\ place'.n - 1 = n
    <3>1. (Product' <=> Product) /\ files' = files
      BY <2>1, QuietSame DEF Quiet
    <3>2. Len(Checks)' = l
      BY <2>4 DEF l
    <3>3. place'.n - 1 = n
      BY <2>2, <2>3
    <3> QED
      BY <3>1, <3>2, <3>3
  <2>9. place'.n = n + 1 /\ place'.n \in 1 .. l + 1 /\ calm' = calm
    BY <2>1, <2>2, <2>5
  <2> QED
    BY <2>6, <2>7, <2>8, <2>9 DEF PassedOK
<1>3. CASE ~Begin /\ ~Check /\ place'.at = "check"
  <2>1. place' = place
    BY <1>3, WhoMoves, Landing, HelperLanding, Apart
  <2>2. icon' = icon /\ (calm' => calm)
    BY <1>3, StirredStep
  <2>3. CASE Quiet
    <3>1. \A k \in 1 .. place.n - 1 : Verdict(Checks[k])' = Verdict(Checks[k])
      BY <2>2, <2>3, QuietSame
    <3>2. Checks' = Checks /\ (Product' <=> Product) /\ files' = files
      BY <2>3, QuietSame DEF Quiet
    <3> QED
      BY <1>0, <1>3, <2>1, <2>2, <3>1, <3>2 DEF PassedOK, Passed
  <2>4. CASE ~Quiet
    <3>1. calm' = FALSE /\ build' = build
      BY <2>4, StirredStep
    <3>2. Checks' = Checks
      BY <3>1 DEF Checks, Product
    <3> QED
      BY <1>0, <1>3, <2>1, <3>1, <3>2 DEF PassedOK
  <2> QED
    BY <2>3, <2>4
<1>4. CASE place'.at # "check"
  BY <1>4 DEF PassedOK
<1> QED
  BY <1>1, <1>2, <1>3, <1>4

-----------------------------------------------------------------------------
(* Where a launch ends.                                                    *)

LEMMA CheckedSound ==
  ASSUME LaunchInv, Checked, calm
  PROVE  Sound
<1>1. /\ place.at = "check" /\ place.n > Len(Checks) /\ place.n \in 1 .. Len(Checks) + 1
      /\ Passed(place.n) /\ (Product /\ place.n > 2 => icon = There(files["icon"]))
      /\ BundleTyped
  BY DEF Checked, LaunchInv, LaunchTypeOK, PassedOK, Passed, BundleTyped
<1>2. place.n = Len(Checks) + 1
  <2> DEFINE n == place.n
             l == Len(Checks)
  <2>1. l \in 3 .. 10 /\ n > l /\ n \in 1 .. l + 1
    BY <1>1, ChecksBounded
  <2> HIDE DEF n, l
  <2>2. n = l + 1
    BY <2>1
  <2> QED
    BY <2>2 DEF n, l
<1>3. Passed(Len(Checks) + 1)
  BY <1>1, <1>2
<1>4. Product => icon = There(files["icon"])
  <2>1. Len(Checks) + 1 > 2
    BY ChecksBounded
  <2> QED
    BY <1>1, <1>2, <2>1
<1> QED
  BY <1>1, <1>3, <1>4, AllPassed

LEMMA EndStep ==
  ASSUME LaunchInv, [Next]_vars
  PROVE  /\ calm' /\ place'.at = "exited" /\ place'.n \in Faults' => Fault(place.n)'
         /\ calm' /\ place'.at \in Launched => Sound'
         /\ VouchedOK' /\ ValidateOnlyPredicts'
<1>0. /\ calm /\ place.at = "exited" /\ place.n \in Faults => Fault(place.n)
      /\ calm /\ place.at \in Launched => Sound
      /\ (dry => Product) /\ (vouched => calm /\ Product /\ Sound)
      /\ vouched /\ place.at = "exited" => place.n \notin Faults \cup {1}
      /\ calm \in BOOLEAN /\ vouched \in BOOLEAN /\ dry \in BOOLEAN
  BY DEF LaunchInv, ExitNamesAFault, Launched, Sound, VouchedOK, ValidateOnlyPredicts, LaunchTypeOK
<1>1. Faults' = Faults
  BY DEF Faults
<1>2. CASE ~Quiet
  <2>1. calm' = FALSE /\ vouched' = FALSE /\ dry' = dry /\ (Product' <=> Product)
    BY <1>2, StirredStep DEF Product
  <2> QED
    BY <1>0, <2>1 DEF VouchedOK, ValidateOnlyPredicts
<1>3. CASE Quiet
  <2>1. /\ (Product' <=> Product) /\ (Sound' <=> Sound) /\ \A code : Fault(code)' <=> Fault(code)
    BY <1>3, QuietSame
  <2>2. CASE UNCHANGED vars \/ ChangeBundle \/ \E f \in Code \cup Policy : ChangeFile(f)
    <3>1. place' = place /\ dry' = dry /\ (calm' => calm) /\ (vouched' => vouched /\ calm')
      BY <1>0, <2>2 DEF vars, ChangeBundle, ChangeFile
    <3>2. Fault(place.n)' <=> Fault(place.n)
      BY <2>1, <3>1
    <3> QED
      BY <1>0, <1>1, <2>1, <3>1, <3>2 DEF VouchedOK, ValidateOnlyPredicts
  <2>3. CASE Begin
    <3>1. place'.at = "check" /\ (dry' => Product) /\ calm' = TRUE /\ vouched' = vouched
      BY <2>3, Landing DEF Begin
    <3> QED
      BY <1>0, <2>1, <3>1 DEF VouchedOK, ValidateOnlyPredicts, Launched
  <2>4. CASE Check
    <3> DEFINE code == Verdict(Checks[place.n])
    <3>1. /\ dry' = dry /\ calm' = calm /\ vouched' = vouched
          /\ place.at = "check" /\ place.n <= Len(Checks)
      BY <2>4 DEF Check
    <3>2. place.n \in Steps
      BY <3>1, ChecksBounded DEF Steps, LaunchInv, PassedOK
    <3>3. \/ place'.at = "check"
          \/ code # 0 /\ place'.at = "exited" /\ place'.n = code
      BY <2>4, Landing
    <3>4. calm /\ code # 0 => Named(code)
      BY <3>1, <3>2, CheckVerdict DEF LaunchInv, PassedOK, Passed, LaunchTypeOK
    <3> HIDE DEF code
    <3>5. vouched => place'.at = "check"
      BY <1>0, <3>3, <3>4 DEF Named, Sound
    <3>6. calm /\ place'.at = "exited" => Fault(place.n)'
      BY <2>1, <3>3, <3>4 DEF Named
    <3> QED
      BY <1>0, <2>1, <3>1, <3>3, <3>5, <3>6 DEF VouchedOK, ValidateOnlyPredicts, Launched
  <2>5. CASE Vouch
    <3>1. /\ place'.at = "exited" /\ place'.n = 0 /\ dry' = dry /\ calm' = calm /\ vouched' = calm
          /\ Checked /\ dry
      BY <2>5, Landing DEF Vouch
    <3>2. calm => Sound
      BY <3>1, CheckedSound
    <3> QED
      BY <1>0, <2>1, <3>1, <3>2 DEF VouchedOK, ValidateOnlyPredicts, Launched, Faults
  <2>6. CASE TooLong
    <3>1. /\ place'.at = "exited" /\ place'.n = 7 /\ dry' = dry /\ calm' = calm /\ vouched' = vouched
      BY <2>6, Landing DEF TooLong
    <3> QED
      BY <1>0, <2>1, <3>1 DEF VouchedOK, ValidateOnlyPredicts, Launched, Faults
  <2>7. CASE Exec
    <3> DEFINE python == files["python"]
    <3>1. /\ dry' = dry /\ calm' = calm /\ vouched' = vouched /\ Checked
          /\ \/ place'.at = "launched"
             \/ ~(Opens(python) /\ python.exec) /\ place'.at = "exited" /\ place'.n = 1
      BY <2>7, Landing DEF Exec
    <3>2. calm => Sound
      BY <3>1, CheckedSound
    <3>3. vouched => Opens(python) /\ python.exec
      <4>1. SUFFICES ASSUME vouched PROVE Opens(python) /\ python.exec
        OBVIOUS
      <4>2. Sound /\ Product /\ "python" \in RestsOn /\ MustExec("python")
        BY <1>0, <4>1 DEF RestsOn, MustExec
      <4>3. ~Fault(2) /\ ~Fault(3) /\ ~Fault(6)
        BY <4>2 DEF Sound, Faults
      <4>4. There(python) /\ Regular(python) /\ python.exec
        BY <4>2, <4>3 DEF Fault
      <4> QED
        BY <4>4 DEF Regular, Opens
    <3> HIDE DEF python
    <3> QED
      BY <1>0, <2>1, <3>1, <3>2, <3>3 DEF VouchedOK, ValidateOnlyPredicts, Launched, Faults
  <2>8. CASE ReadHelper \/ CheckSendGate \/ ReadSendGate
             \/ LoadPolicy \/ CheckPolicyFile \/ ReadPolicyFile
    <3>1. dry' = dry /\ calm' = calm /\ vouched' = vouched
      BY <2>8 DEF ReadHelper, CheckSendGate, ReadSendGate, LoadPolicy, CheckPolicyFile,
                  ReadPolicyFile
    <3>2. place.at \in Launched /\ place'.at # "exited"
      BY <2>8, HelperLanding DEF Launched
    <3> QED
      BY <1>0, <2>1, <3>1, <3>2 DEF VouchedOK, ValidateOnlyPredicts
  <2> QED
    BY <2>2, <2>3, <2>4, <2>5, <2>6, <2>7, <2>8, WhoMoves
<1> QED
  BY <1>2, <1>3

-----------------------------------------------------------------------------
(* What the helper accepts.                                                *)

LEMMA SiblingAccepted ==
  ASSUME Sound, BundleTyped
  PROVE  /\ There(files["helper.py"]) /\ Opens(files["helper.py"])
         /\ There(files["send_gate.py"]) /\ Opens(files["send_gate.py"])
         /\ ~SendGateRejected(files["send_gate.py"])
<1>1. "helper.py" \in RestsOn /\ "send_gate.py" \in RestsOn
  BY DEF RestsOn
<1>2. ~Fault(2) /\ ~Fault(3) /\ ~Fault(4) /\ ~Fault(5)
  BY DEF Sound, Faults
<1>3. /\ There(files["helper.py"]) /\ Regular(files["helper.py"])
      /\ There(files["send_gate.py"]) /\ Regular(files["send_gate.py"])
      /\ files["send_gate.py"].owner \in MayOwn("send_gate.py")
      /\ files["send_gate.py"].access # "writable"
  <2>1. \A f \in RestsOn : There(files[f])
    BY <1>2 DEF Fault
  <2>2. \A f \in RestsOn : Regular(files[f])
    BY <1>2, <2>1 DEF Fault
  <2>3. \A f \in RestsOn : files[f].owner \in MayOwn(f)
    BY <1>2, <2>1 DEF Fault
  <2>4. \A f \in RestsOn : files[f].access # "writable"
    BY <1>2, <2>1 DEF Fault
  <2> QED
    BY <1>1, <2>1, <2>2, <2>3, <2>4
<1>4. MayOwn("send_gate.py") \subseteq {"root", "user"}
  <2>1. CASE Product
    <3>1. bundle.owner # "other"
      BY <1>2, <2>1 DEF Fault
    <3>2. MayOwn("send_gate.py") = {bundle.owner, "root"}
      BY <2>1 DEF MayOwn, Product
    <3> QED
      BY <3>1, <3>2 DEF BundleTyped, Owners
  <2>2. CASE ~Product
    BY <2>2 DEF MayOwn
  <2> QED
    BY <2>1, <2>2
<1> QED
  BY <1>3, <1>4 DEF Regular, Opens, SendGateRejected

\* A policy file that is not passed over and whose reading raises.
LEMMA RaisesCannotBeRead ==
  ASSUME FilesTyped, build \in Builds, build # "manager", NEW k \in 1 .. 3, NEW f,
         f = LoadOrder[k], Raises(f, TRUE, files[f]), ~Rejected(f, files[f])
  PROVE  CannotBeRead
<1> DEFINE a == files[f]
<1>1. CASE f = "read_policy"
  <2>1. build \in {"diy", "host"}
    <3>1. build # "hardened"
      BY <1>1, HardenedEnvironment DEF Raises
    <3> QED
      BY <3>1, BuildsKnown
  <2>2. There(a) /\ (~Readable(a) \/ a.content = "binary")
    BY <1>1 DEF Raises
  <2>3. There(a) /\ ~Opens(a) => a.kind = "directory"
    BY <1>1, ModeFile DEF Opens
  <2>4. Closed(a) \/ (Opens(a) /\ a.content = "binary") \/ a.kind = "directory"
    BY <2>2, <2>3 DEF Closed, Readable
  <2> QED
    BY <1>1, <2>1, <2>4 DEF CannotBeRead
<1>2. CASE f \in {"blocklist", "allowlist"}
  <2>1. There(a) /\ Regular(a)
    BY <1>2 DEF Rejected, ListRejected
  <2>2. ~Readable(a)
    BY <1>2 DEF Raises
  <2>3. Closed(a)
    BY <2>1, <2>2 DEF Closed, Readable, Opens, Regular
  <2> QED
    BY <1>2, <2>3 DEF CannotBeRead
<1>3. k \in {1, 2, 3}
  OBVIOUS
<1> QED
  BY <1>1, <1>2, <1>3, Order

\* The checks of the helper on a hardened list add nothing to the wrapper's.
LEMMA ListAccepted ==
  ASSUME build = "hardened", Sound
  PROVE  ~Rejected("allowlist", files["allowlist"])
<1> DEFINE a == files["allowlist"]
<1>1. "allowlist" \in RestsOn /\ MayOwn("allowlist") = {"root"}
  BY DEF RestsOn, MayOwn, Product
<1>2. ~Fault(2) /\ ~Fault(3) /\ ~Fault(4) /\ ~Fault(5)
  BY DEF Sound, Faults
<1>3. There(a)
  BY <1>1, <1>2 DEF Fault
<1>4. Regular(a) /\ a.owner = "root" /\ Private(a)
  BY <1>1, <1>2, <1>3 DEF Fault
<1>5. ProductMode = FALSE
  BY HardenedEnvironment DEF ProductMode
<1>6. \A root : ~ListRejected(a, root, FALSE)
  BY <1>3, <1>4 DEF ListRejected
<1> QED
  BY <1>5, <1>6 DEF Rejected

LEMMA AcceptStep ==
  ASSUME LaunchInv, [Next]_vars
  PROVE  AcceptedByBoth'
<1>0. /\ calm /\ place.at = "raised" => CannotBeRead
      /\ calm /\ place.at = "loaded" /\ build = "hardened" =>
           policy.allowlist = files["allowlist"].content
      /\ calm /\ place.at \in Launched => Sound
      /\ FilesTyped /\ BundleTyped /\ build \in Builds /\ LoadOK /\ PolicyTyped(policy)
      /\ admitted \in BOOLEAN
  BY DEF LaunchInv, AcceptedByBoth, ExitNamesAFault, Sound, FilesTyped, BundleTyped, LaunchTypeOK,
         PolicyTyped
<1> DEFINE Whole == build' = "hardened" => policy'.allowlist = files'["allowlist"].content
<1>s. SUFFICES ASSUME calm'
               PROVE  /\ place'.at = "raised" => CannotBeRead'
                      /\ place'.at = "loaded" => Whole
  BY DEF AcceptedByBoth
<1>1. Quiet
  BY <1>s, StirredStep
<1>2. build' = build /\ files' = files /\ (CannotBeRead' <=> CannotBeRead)
  BY <1>1 DEF Quiet, CannotBeRead
<1>3. CASE Begin \/ Check \/ Vouch \/ TooLong \/ Exec
  <2>1. place'.at \notin {"raised", "loaded"}
    BY <1>3, Landing
  <2> QED
    BY <2>1
<1>4. CASE UNCHANGED vars \/ ChangeBundle \/ \E f \in Code \cup Policy : ChangeFile(f)
  <2>1. place' = place /\ policy' = policy
    BY <1>4, Apart
  <2>2. calm
    BY <1>4, <1>s DEF vars, ChangeBundle, ChangeFile
  <2> QED
    BY <1>0, <1>2, <2>1, <2>2
<1>5. CASE ReadHelper \/ CheckSendGate \/ ReadSendGate
  <2>1. calm /\ place.at \in Launched
    BY <1>5, <1>s, StirredStep, HelperLanding DEF Launched, ReadHelper, CheckSendGate, ReadSendGate
  <2>2. /\ There(files["helper.py"]) /\ Opens(files["helper.py"])
        /\ There(files["send_gate.py"]) /\ Opens(files["send_gate.py"])
        /\ ~SendGateRejected(files["send_gate.py"])
    BY <1>0, <2>1, SiblingAccepted
  <2>3. /\ place'.at # "loaded"
        /\ place'.at = "raised" => ~Readable(files["helper.py"]) \/ ~Readable(files["send_gate.py"])
    BY <1>5, <2>2, HelperLanding
  <2>4. place'.at = "raised" => CannotBeRead
    BY <2>2, <2>3 DEF CannotBeRead, Closed, Readable
  <2> QED
    BY <1>2, <2>3, <2>4
<1>6. CASE LoadPolicy \/ CheckPolicyFile
  <2>1. place'.at # "raised" /\ (place'.at = "loaded" => BridgeRole = "manager")
    BY <1>6, HelperLanding
  <2>2. BridgeRole = "manager" => build # "hardened"
    BY HardenedEnvironment
  <2> QED
    BY <1>2, <2>1, <2>2
<1>7. CASE ReadPolicyFile
  <2> DEFINE n == place.n
             f == LoadOrder[place.n]
  <2>1. place.at = "read" /\ place.at \in Launched /\ n \in 1 .. 3 /\ build # "manager"
    BY <1>0, <1>7, HelperLanding DEF LoadOK, Loading, Launched
  <2>2. calm
    BY <1>7, <1>s DEF ReadPolicyFile
  <2>3. admitted <=> ~Rejected(f, files[f])
    BY <1>0, <2>1, <2>2 DEF LoadOK
  <2>4. place'.at = "raised" => CannotBeRead
    <3>1. SUFFICES ASSUME place'.at = "raised" PROVE CannotBeRead
      OBVIOUS
    <3>2. Raises(f, admitted, files[f])
      BY <1>7, <3>1, HelperLanding
    <3>3. admitted = TRUE
      BY <1>0, <3>2 DEF Raises
    <3>4. Raises(f, TRUE, files[f]) /\ ~Rejected(f, files[f])
      BY <2>3, <3>2, <3>3
    <3> HIDE DEF f
    <3>5. f = LoadOrder[n]
      BY DEF f
    <3> QED
      BY <1>0, <2>1, <3>4, <3>5, RaisesCannotBeRead
  <2>5. ASSUME place'.at = "loaded", build = "hardened"
        PROVE  policy'.allowlist = files["allowlist"].content
    <3>1. /\ ~(n < 3)
          /\ policy' = [policy EXCEPT ![Part(f)] = Value(f, admitted, files[f])]
      BY <1>7, <2>5, HelperLanding
    <3>2. n = 3
      <4> HIDE DEF n
      <4> QED
        BY <2>1, <3>1
    <3>3. f = "allowlist"
      BY <3>2, Order
    <3>4. admitted
      BY <1>0, <2>1, <2>2, <2>3, <2>5, <3>3, ListAccepted
    <3>5. Value(f, admitted, files[f]) = files["allowlist"].content
      BY <3>3, <3>4 DEF Value, LoadList
    <3>6. policy' = [policy EXCEPT !["allowlist"] = files["allowlist"].content]
      BY <3>1, <3>3, <3>5 DEF Part
    <3> QED
      BY <1>0, <3>6 DEF PolicyTyped
  <2> QED
    BY <1>2, <2>4, <2>5
<1> QED
  BY <1>3, <1>4, <1>5, <1>6, <1>7, WhoMoves

-----------------------------------------------------------------------------
(* What is hidden all along stays hidden.                                  *)

Shows(id, m, b, a) == IsReadAllowed(id, Nobody, [mode |-> m, blocklist |-> b, allowlist |-> a])

\* A stricter pair of lists shows no more.
LEMMA Stricter ==
  ASSUME NEW id, NEW m, NEW b1, NEW b2, NEW a1, NEW a2, b1 \subseteq b2, a2 \subseteq a1,
         Shows(id, m, b2, a2)
  PROVE  Shows(id, m, b1, a1)
<1>1. MatchesList(id, Nobody, a2) => MatchesList(id, Nobody, a1)
  BY DEF MatchesList
<1>2. MatchesList(id, Nobody, b1) => MatchesList(id, Nobody, b2)
  BY DEF MatchesList
<1> QED
  BY <1>1, <1>2 DEF Shows, IsReadAllowed, IsBlocked

\* The parts of what is coming.
LEMMA ComingIs ==
  /\ Coming(1) = IF place.at = "loaded" \/ 1 < place.n THEN policy.mode
                 ELSE IF place.at = "read" /\ 1 = place.n /\ ~admitted
                      THEN ReadMode(FALSE, files["read_policy"])
                      ELSE Effective("read_policy")
  /\ Coming(2) = IF place.at = "loaded" \/ 2 < place.n THEN policy.blocklist
                 ELSE IF place.at = "read" /\ 2 = place.n /\ ~admitted
                      THEN {} ELSE Effective("blocklist")
  /\ Coming(3) = IF place.at = "loaded" \/ 3 < place.n THEN policy.allowlist
                 ELSE IF place.at = "read" /\ 3 = place.n /\ ~admitted
                      THEN {} ELSE Effective("allowlist")
<1>1. /\ Part("read_policy") = "mode" /\ Part("blocklist") = "blocklist"
      /\ Part("allowlist") = "allowlist"
  BY DEF Part
<1>2. /\ \A a : Value("read_policy", FALSE, a) = ReadMode(FALSE, a)
      /\ \A a : Value("blocklist", FALSE, a) = {} /\ Value("allowlist", FALSE, a) = {}
  BY DEF Value, LoadList
<1> QED
  BY <1>1, <1>2, Order DEF Coming

ComingShows(id) == Shows(id, Coming(1), Coming(2), Coming(3))

LEMMA EffectiveIs ==
  ASSUME BridgeRole # "manager"
  PROVE  /\ LoadPrivacyPolicy = [mode |-> Effective("read_policy"),
                                 blocklist |-> Effective("blocklist"),
                                 allowlist |-> Effective("allowlist")]
         /\ LoadPrivacyPolicy.mode = Effective("read_policy")
         /\ LoadPrivacyPolicy.blocklist = Effective("blocklist")
         /\ LoadPrivacyPolicy.allowlist = Effective("allowlist")
  BY DEF LoadPrivacyPolicy

\* A step of the load changes nothing of what is coming.
LEMMA ReadComing ==
  ASSUME PolicyTyped(policy), admitted \in BOOLEAN, place.n \in 1 .. 3,
         CheckPolicyFile \/ ReadPolicyFile, place'.at # "raised", slipped' = {}
  PROVE  /\ slipped = {}
         /\ Coming(1)' = Coming(1) /\ Coming(2)' = Coming(2) /\ Coming(3)' = Coming(3)
<1> DEFINE n == place.n
           f == LoadOrder[place.n]
<1>0. n \in 1 .. 3 /\ n \in {1, 2, 3}
  OBVIOUS
<1>1. build' = build /\ files' = files
  BY DEF CheckPolicyFile, ReadPolicyFile
<1>2. /\ ProductMode' = ProductMode /\ RootRequired' = RootRequired /\ Override' = Override
  <2>1. Environment' = Environment
    BY <1>1, SameEnvironment
  <2> QED
    BY <2>1 DEF ProductMode, RootRequired, Override, Env
<1>3. /\ Effective("read_policy")' = Effective("read_policy")
      /\ Effective("blocklist")' = Effective("blocklist")
      /\ Effective("allowlist")' = Effective("allowlist")
  BY <1>1, SameRejected
<1>4. \A a : ReadMode(FALSE, a)' = ReadMode(FALSE, a)
  BY <1>2 DEF ReadMode
<1>5. LoadOrder' = LoadOrder /\ Part("read_policy")' = "mode" /\ Part("blocklist")' = "blocklist"
      /\ Part("allowlist")' = "allowlist"
  BY DEF LoadOrder, Part
<1>c. /\ Coming(1)' = IF place'.at = "loaded" \/ 1 < place'.n THEN policy'.mode
                      ELSE IF place'.at = "read" /\ 1 = place'.n /\ ~admitted'
                           THEN ReadMode(FALSE, files["read_policy"])
                           ELSE Effective("read_policy")
      /\ Coming(2)' = IF place'.at = "loaded" \/ 2 < place'.n THEN policy'.blocklist
                      ELSE IF place'.at = "read" /\ 2 = place'.n /\ ~admitted'
                           THEN {} ELSE Effective("blocklist")
      /\ Coming(3)' = IF place'.at = "loaded" \/ 3 < place'.n THEN policy'.allowlist
                      ELSE IF place'.at = "read" /\ 3 = place'.n /\ ~admitted'
                           THEN {} ELSE Effective("allowlist")
  <2>1. /\ \A a : Value("read_policy", FALSE, a)' = ReadMode(FALSE, a)'
        /\ \A a : Value("blocklist", FALSE, a)' = {} /\ Value("allowlist", FALSE, a)' = {}
    BY DEF Value, LoadList
  <2> QED
    BY <2>1, <1>1, <1>3, <1>4, <1>5, Order DEF Coming
<1>7. CASE CheckPolicyFile
  <2>1. /\ place.at = "look" /\ place'.at = "read" /\ place'.n = n /\ policy' = policy
        /\ admitted' = ~Rejected(f, files[f])
    BY <1>7, HelperLanding
  <2>2. ~admitted' => Effective(f) = Value(f, FALSE, files[f])
    BY <2>1 DEF Effective
  <2>3. slipped' = slipped
    BY <1>7, Apart
  <2>4. /\ ~admitted' /\ n = 1 => Effective("read_policy") = ReadMode(FALSE, files["read_policy"])
        /\ ~admitted' /\ n = 2 => Effective("blocklist") = {}
        /\ ~admitted' /\ n = 3 => Effective("allowlist") = {}
    BY <2>2, Order DEF Value, LoadList
  <2> HIDE DEF f
  <2>5. /\ place'.at = "read" /\ place.at = "look" /\ place'.n = place.n /\ policy' = policy
    BY <2>1
  <2>6. CASE n = 1
    <3>1. /\ ~(1 < place.n) /\ ~(2 < place.n) /\ ~(3 < place.n)
          /\ 1 = place.n /\ 2 # place.n /\ 3 # place.n
      BY <2>6
    <3>2. /\ Coming(1) = Effective("read_policy") /\ Coming(2) = Effective("blocklist")
          /\ Coming(3) = Effective("allowlist")
      BY <2>5, <3>1, ComingIs
    <3>3. ~(1 < place'.n) /\ ~(2 < place'.n) /\ ~(3 < place'.n) /\ place'.at # "loaded"
          /\ 2 # place'.n /\ 3 # place'.n
      BY <2>5, <3>1
    <3>4. Coming(2)' = Effective("blocklist") /\ Coming(3)' = Effective("allowlist")
      BY <3>3, <1>c
    <3>5. \/ Coming(1)' = Effective("read_policy")
          \/ ~admitted' /\ Coming(1)' = ReadMode(FALSE, files["read_policy"])
      BY <3>3, <1>c
    <3>6. Coming(1)' = Effective("read_policy")
      BY <2>4, <3>1, <3>5
    <3> QED
      BY <2>3, <3>2, <3>4, <3>6
  <2>7. CASE n = 2
    BY <2>3, <2>4, <2>5, <2>7, <1>c, ComingIs
  <2>8. CASE n = 3
    BY <2>3, <2>4, <2>5, <2>8, <1>c, ComingIs
  <2> QED
    BY <1>0, <2>3, <2>6, <2>7, <2>8
<1>8. CASE ReadPolicyFile
  <2>1. /\ place.at = "read"
        /\ \/ n < 3 /\ place'.at = "look" /\ place'.n = n + 1
           \/ ~(n < 3) /\ place'.at = "loaded" /\ place'.n = 0
        /\ policy' = [policy EXCEPT ![Part(f)] = Value(f, admitted, files[f])]
        /\ slipped' = IF admitted /\ Rejected(f, files[f]) THEN slipped \cup {f} ELSE slipped
    BY <1>8, HelperLanding
  <2>2. slipped = {} /\ ~(admitted /\ Rejected(f, files[f]))
    BY <2>1
  <2>3. admitted => Effective(f) = Value(f, admitted, files[f])
    <3>1. SUFFICES ASSUME admitted PROVE Effective(f) = Value(f, admitted, files[f])
      OBVIOUS
    <3>2. admitted = TRUE /\ (~Rejected(f, files[f])) = TRUE
      BY <2>2, <3>1
    <3> QED
      BY <3>2 DEF Effective
  <2>4. ~admitted => admitted = FALSE
    OBVIOUS
  <2>5. CASE n = 1
    <3>1. f = "read_policy"
      BY <2>5, Order
    <3>2. policy' = [policy EXCEPT !["mode"] = Value(f, admitted, files[f])]
      BY <2>1, <3>1 DEF Part
    <3>3. ~admitted => Value(f, admitted, files[f]) = ReadMode(FALSE, files["read_policy"])
      BY <2>4, <3>1 DEF Value
    <3>4. place'.at = "look" /\ place'.n = 2
      BY <2>1, <2>5
    <3>5. /\ policy'.mode = Value(f, admitted, files[f])
      BY <3>2 DEF PolicyTyped
    <3>6. admitted => Effective("read_policy") = Value(f, admitted, files[f])
      BY <2>3, <3>1
    <3>7. /\ ~(1 < place.n) /\ ~(2 < place.n) /\ ~(3 < place.n)
          /\ 1 = place.n /\ 2 # place.n /\ 3 # place.n
          /\ 1 < place'.n /\ ~(2 < place'.n) /\ ~(3 < place'.n)
      BY <2>5, <3>4
    <3> HIDE DEF f
    <3> QED
      BY <2>1, <2>2, <3>3, <3>4, <3>5, <3>6, <3>7, <1>c, ComingIs
  <2>6. CASE n = 2
    <3>1. f = "blocklist"
      BY <2>6, Order
    <3>2. policy' = [policy EXCEPT !["blocklist"] = Value(f, admitted, files[f])]
      BY <2>1, <3>1 DEF Part
    <3>3. ~admitted => Value(f, admitted, files[f]) = {}
      BY <3>1 DEF Value, LoadList
    <3>4. place'.at = "look" /\ place'.n = 3
      BY <2>1, <2>6
    <3>5. /\ policy'.blocklist = Value(f, admitted, files[f]) /\ policy'.mode = policy.mode
      BY <3>2 DEF PolicyTyped
    <3>6. admitted => Effective("blocklist") = Value(f, admitted, files[f])
      BY <2>3, <3>1
    <3>7. /\ 1 < place.n /\ ~(2 < place.n) /\ ~(3 < place.n)
          /\ 1 # place.n /\ 2 = place.n /\ 3 # place.n
          /\ 1 < place'.n /\ 2 < place'.n /\ ~(3 < place'.n)
      BY <2>6, <3>4
    <3> HIDE DEF f
    <3> QED
      BY <2>1, <2>2, <3>3, <3>4, <3>5, <3>6, <3>7, <1>c, ComingIs
  <2>7. CASE n = 3
    <3>1. f = "allowlist"
      BY <2>7, Order
    <3>2. policy' = [policy EXCEPT !["allowlist"] = Value(f, admitted, files[f])]
      BY <2>1, <3>1 DEF Part
    <3>3. ~admitted => Value(f, admitted, files[f]) = {}
      BY <3>1 DEF Value, LoadList
    <3>4. place'.at = "loaded"
      BY <2>1, <2>7
    <3>5. /\ policy'.allowlist = Value(f, admitted, files[f])
          /\ policy'.mode = policy.mode /\ policy'.blocklist = policy.blocklist
      BY <3>2 DEF PolicyTyped
    <3>6. admitted => Effective("allowlist") = Value(f, admitted, files[f])
      BY <2>3, <3>1
    <3>7. /\ 1 < place.n /\ 2 < place.n /\ ~(3 < place.n)
          /\ 1 # place.n /\ 2 # place.n /\ 3 = place.n
      BY <2>7, <3>4
    <3> HIDE DEF f
    <3> QED
      BY <2>1, <2>2, <3>3, <3>4, <3>5, <3>6, <3>7, <1>c, ComingIs
  <2> QED
    BY <1>0, <2>5, <2>6, <2>7
<1> QED
  BY <1>7, <1>8

\* A change of a file makes what is coming stricter, or what the files say.
LEMMA ChangeComing ==
  ASSUME NEW g \in Code \cup Policy, ChangeFile(g), BridgeRole # "manager",
         Loading, place.n \in 1 .. 3, ~loosened',
         NEW id, ~ComingShows(id), ~IsReadAllowed(id, Nobody, LoadPrivacyPolicy)'
  PROVE  ~ComingShows(id)'
<1> DEFINE n == place.n
<1>0. n \in 1 .. 3 /\ n \in {1, 2, 3}
  OBVIOUS
<1>1. place' = place /\ policy' = policy /\ admitted' = admitted /\ build' = build
  BY DEF ChangeFile
<1>2. BridgeRole' = BridgeRole /\ Override' = Override
  BY <1>1, SameEnvironment
<1>3. /\ LoadPrivacyPolicy.blocklist \subseteq LoadPrivacyPolicy'.blocklist
      /\ LoadPrivacyPolicy'.allowlist \subseteq LoadPrivacyPolicy.allowlist
  BY DEF ChangeFile
<1>4. LoadPrivacyPolicy' = [mode |-> Effective("read_policy")', blocklist |-> Effective("blocklist")',
                            allowlist |-> Effective("allowlist")']
  BY <1>2 DEF LoadPrivacyPolicy
<1>5. /\ Effective("blocklist") \subseteq Effective("blocklist")'
      /\ Effective("allowlist")' \subseteq Effective("allowlist")
  BY <1>3, <1>4, EffectiveIs
<1>6. LoadOrder' = LoadOrder /\ Part("read_policy")' = "mode" /\ Part("blocklist")' = "blocklist"
      /\ Part("allowlist")' = "allowlist"
  BY DEF LoadOrder, Part
<1>7. /\ \A a, b : Value("read_policy", FALSE, a)' = ReadMode(FALSE, b)
      /\ \A a : Value("blocklist", FALSE, a)' = {} /\ Value("allowlist", FALSE, a)' = {}
  BY <1>2 DEF Value, LoadList, ReadMode
<1>c. /\ Coming(1)' = IF place.at = "loaded" \/ 1 < place.n THEN policy.mode
                      ELSE IF place.at = "read" /\ 1 = place.n /\ ~admitted
                           THEN ReadMode(FALSE, files["read_policy"])
                           ELSE Effective("read_policy")'
      /\ Coming(2)' = IF place.at = "loaded" \/ 2 < place.n THEN policy.blocklist
                      ELSE IF place.at = "read" /\ 2 = place.n /\ ~admitted
                           THEN {} ELSE Effective("blocklist")'
      /\ Coming(3)' = IF place.at = "loaded" \/ 3 < place.n THEN policy.allowlist
                      ELSE IF place.at = "read" /\ 3 = place.n /\ ~admitted
                           THEN {} ELSE Effective("allowlist")'
  BY <1>1, <1>6, <1>7, Order DEF Coming
<1>8. place.at # "loaded"
  BY DEF Loading
<1>9. CASE n = 1 /\ ~(place.at = "read" /\ ~admitted)
  <2>0. ~(1 < place.n) /\ ~(2 < place.n) /\ ~(3 < place.n) /\ 2 # place.n /\ 3 # place.n
    BY <1>9
  <2>1. /\ Coming(1)' = Effective("read_policy")' /\ Coming(2)' = Effective("blocklist")'
        /\ Coming(3)' = Effective("allowlist")'
    BY <2>0, <1>8, <1>9, <1>c
  <2>2. Shows(id, Coming(1)', Coming(2)', Coming(3)')
          <=> IsReadAllowed(id, Nobody, LoadPrivacyPolicy')
    BY <1>4, <2>1 DEF Shows
  <2> QED
    BY <2>2 DEF ComingShows
<1>10. CASE ~(n = 1 /\ ~(place.at = "read" /\ ~admitted))
  <2>1. Coming(1)' = Coming(1)
    <3>1. CASE n = 1
      <4>1. ~(1 < place.n) /\ 1 = place.n /\ place.at = "read" /\ ~admitted
        BY <1>10, <3>1
      <4> QED
        BY <4>1, <1>8, <1>c, ComingIs
    <3>2. CASE n \in {2, 3}
      <4>1. 1 < place.n
        BY <3>2
      <4> QED
        BY <4>1, <1>c, ComingIs
    <3> QED
      BY <1>0, <3>1, <3>2
  <2>2. Coming(2) \subseteq Coming(2)'
    BY <1>5, <1>c, ComingIs
  <2>3. Coming(3)' \subseteq Coming(3)
    BY <1>5, <1>c, ComingIs
  <2>4. ~Shows(id, Coming(1), Coming(2)', Coming(3)')
    BY <2>2, <2>3, Stricter DEF ComingShows
  <2> QED
    BY <2>1, <2>4 DEF ComingShows
<1> QED
  BY <1>9, <1>10

LEMMA HidesStep ==
  ASSUME LaunchInv, [Next]_vars
  PROVE  ComingHides'
<1>0. /\ FilesTyped /\ PolicyTyped(policy) /\ LoadOK /\ admitted \in BOOLEAN /\ build \in Builds
      /\ ((Loading \/ place.at = "loaded") /\ ~loosened /\ slipped = {} =>
            \A id \in hidden : ~ComingShows(id))
  BY DEF LaunchInv, LaunchTypeOK, FilesTyped, PolicyTyped, ComingHides, ComingShows, Shows
<1>s. SUFFICES ASSUME (Loading \/ place.at = "loaded")', ~loosened', slipped' = {},
                      NEW id \in hidden'
               PROVE  ~ComingShows(id)'
  BY DEF ComingHides, ComingShows, Shows
<1>1. place'.at \in {"look", "read", "loaded"}
  BY <1>s DEF Loading
<1>2. CASE Begin \/ Check \/ Vouch \/ TooLong \/ Exec \/ ReadHelper \/ CheckSendGate \/ ReadSendGate
  BY <1>1, <1>2, Landing, HelperLanding
<1>3. CASE UNCHANGED vars \/ ChangeBundle
  <2>1. /\ place' = place /\ policy' = policy /\ admitted' = admitted
        /\ slipped' = slipped /\ hidden' = hidden /\ loosened' = loosened
    BY <1>3, Apart
  <2>2. build' = build /\ files' = files
    BY <1>3 DEF vars, ChangeBundle
  <2>4. ASSUME NEW f
        PROVE  Effective(f)' = Effective(f) /\ Value(f, FALSE, files[f])' = Value(f, FALSE, files[f])
    BY <2>2, SameRejected
  <2>5. \A k : Coming(k)' = Coming(k)
    <3>1. LoadOrder' = LoadOrder /\ \A f : Part(f)' = Part(f)
      BY DEF LoadOrder, Part
    <3> QED
      BY <2>1, <2>2, <2>4, <3>1 DEF Coming
  <2>6. ~ComingShows(id)
    BY <1>0, <1>1, <1>s, <2>1 DEF Loading
  <2> QED
    BY <2>5, <2>6 DEF ComingShows
<1>4. CASE \E g \in Code \cup Policy : ChangeFile(g)
  <2>1. PICK g \in Code \cup Policy : ChangeFile(g)
    BY <1>4
  <2>2. /\ place' = place /\ policy' = policy /\ admitted' = admitted
        /\ slipped' = slipped /\ hidden' = hidden \cap Hiding' /\ build' = build
    BY <1>4, Apart, Frame
  <2>3. ~loosened
    BY <1>s, <2>1 DEF ChangeFile
  <2>4. ~ComingShows(id) /\ id \in Hiding'
    BY <1>0, <1>1, <1>s, <2>2, <2>3 DEF Loading
  <2>5. ~IsReadAllowed(id, Nobody, LoadPrivacyPolicy)'
    BY <2>4 DEF Hiding
  <2>6. CASE Loading
    <3>1. BridgeRole # "manager" /\ place.n \in 1 .. 3
      BY <1>0, <2>6, WhichEnvironment DEF LoadOK
    <3> QED
      BY <1>s, <2>1, <2>4, <2>5, <2>6, <3>1, ChangeComing
  <2>7. CASE place.at = "loaded"
    <3>1. \A k \in {1, 2, 3} : Coming(k)' = Coming(k)
      <4>1. LoadOrder' = LoadOrder /\ \A f : Part(f)' = Part(f)
        BY DEF LoadOrder, Part
      <4> QED
        BY <2>2, <2>7, <4>1 DEF Coming
    <3> QED
      BY <2>4, <3>1 DEF ComingShows
  <2> QED
    BY <1>1, <2>2, <2>6, <2>7 DEF Loading
<1>5. CASE LoadPolicy
  <2>1. /\ hidden' = Hiding
        /\ \/ BridgeRole = "manager" /\ place'.at = "loaded" /\ policy' = OpenPolicy
           \/ BridgeRole # "manager" /\ place'.at = "look" /\ place'.n = 1
    BY <1>5, HelperLanding
  <2>2. ~IsReadAllowed(id, Nobody, LoadPrivacyPolicy)
    BY <1>s, <2>1 DEF Hiding
  <2>3. build' = build /\ files' = files
    BY <1>5 DEF LoadPolicy
  <2>5. \A f : Effective(f)' = Effective(f)
    BY <2>3, SameRejected
  <2>6. LoadOrder' = LoadOrder /\ Part("read_policy")' = "mode" /\ Part("blocklist")' = "blocklist"
        /\ Part("allowlist")' = "allowlist"
    BY DEF LoadOrder, Part
  <2>7. CASE BridgeRole = "manager"
    <3>1. policy' = OpenPolicy /\ place'.at = "loaded" /\ LoadPrivacyPolicy = OpenPolicy
      BY <2>1, <2>7 DEF LoadPrivacyPolicy
    <3>2. Coming(1)' = policy'.mode /\ Coming(2)' = policy'.blocklist /\ Coming(3)' = policy'.allowlist
      BY <2>6, <3>1, Order DEF Coming
    <3>3. ~Shows(id, OpenPolicy.mode, OpenPolicy.blocklist, OpenPolicy.allowlist)
      BY <2>2, <3>1 DEF Shows, OpenPolicy
    <3> QED
      BY <3>1, <3>2, <3>3 DEF ComingShows
  <2>8. CASE BridgeRole # "manager"
    <3>1. place'.at = "look" /\ place'.n = 1
      BY <2>1, <2>8
    <3>2. Coming(1)' = Effective("read_policy") /\ Coming(2)' = Effective("blocklist")
          /\ Coming(3)' = Effective("allowlist")
      BY <2>5, <2>6, <3>1, Order DEF Coming
    <3>3. ~Shows(id, Effective("read_policy"), Effective("blocklist"), Effective("allowlist"))
      BY <2>2, <2>8, EffectiveIs DEF Shows
    <3> QED
      BY <3>2, <3>3 DEF ComingShows
  <2> QED
    BY <2>7, <2>8
<1>6. CASE CheckPolicyFile \/ ReadPolicyFile
  <2>1. Loading /\ place.n \in 1 .. 3
    BY <1>0, <1>6, HelperLanding DEF LoadOK, Loading
  <2>2. /\ slipped = {}
        /\ Coming(1)' = Coming(1) /\ Coming(2)' = Coming(2) /\ Coming(3)' = Coming(3)
    BY <1>0, <1>1, <1>s, <1>6, <2>1, ReadComing
  <2>3. hidden' = hidden /\ loosened' = loosened
    BY <1>6, Apart
  <2>4. ~ComingShows(id)
    BY <1>0, <1>s, <2>1, <2>2, <2>3
  <2> QED
    BY <2>2, <2>4 DEF ComingShows
<1> QED
  BY <1>2, <1>3, <1>4, <1>5, <1>6, WhoMoves

-----------------------------------------------------------------------------
(* The theorems.                                                           *)

LEMMA LaunchInvInit ==
  ASSUME Init
  PROVE  LaunchInv
<1>1. place.at = "idle" /\ place.n = 0
  BY DEF Init, At
<1>2. FilesTyped
  <2> DEFINE C(f, mode, send, blocked, allowed) ==
               CASE f = "read_policy" -> mode
                 [] f = "send_policy" -> send
                 [] f = "blocklist"   -> blocked
                 [] f = "allowlist"   -> allowed
                 [] OTHER             -> "code"
  <2>1. PICK mode \in {"allowlist", "blocklist"}, send \in {"enabled", "disabled"},
             blocked \in SUBSET Ids, allowed \in SUBSET Ids :
               files = [f \in Code \cup Policy |-> Installed(f, C(f, mode, send, blocked, allowed))]
    BY DEF Init
  <2>2. ASSUME NEW f \in Code \cup Policy PROVE C(f, mode, send, blocked, allowed) \in Contents(f)
    BY DEF Contents, Code, Policy
  <2> HIDE DEF C
  <2> QED
    BY <2>1, <2>2, InstalledTyped DEF FilesTyped
<1>3. LaunchTypeOK
  <2>1. bundle \in [owner : Owners, seals : SUBSET Signed]
    BY DEF Init, Owners
  <2>2. changes \in 0 .. MaxChanges
    BY MaxChangesNat DEF Init
  <2>3. 0 \in 0 .. 11
    OBVIOUS
  <2> QED
    BY <1>1, <1>2, <2>1, <2>2, <2>3 DEF Init, LaunchTypeOK, FilesTyped, NoPolicy
<1>4. /\ PassedOK /\ VouchedOK /\ LoadOK /\ ComingHides
      /\ ExitNamesAFault /\ AcceptedByBoth /\ ValidateOnlyPredicts
  BY <1>1 DEF Init, PassedOK, VouchedOK, LoadOK, ComingHides, Loading, ExitNamesAFault, Launched,
              AcceptedByBoth, ValidateOnlyPredicts
<1> QED
  BY <1>2, <1>3, <1>4 DEF LaunchInv, FilesTyped

LEMMA LaunchInvStep ==
  ASSUME LaunchInv, [Next]_vars
  PROVE  LaunchInv'
<1>1. LaunchTypeOK' /\ DOMAIN files' = Code \cup Policy
  <2>1. Code' = Code /\ Policy' = Policy
    BY DEF Code, Policy
  <2> QED
    BY <2>1, TypeStep DEF FilesTyped
<1>2. ExitNamesAFault'
  BY EndStep DEF ExitNamesAFault, Sound, Launched
<1> QED
  BY <1>1, <1>2, PassedStep, EndStep, LoadStep, HidesStep, AcceptStep DEF LaunchInv

\* The inductive invariant.
THEOREM LaunchInvHolds == Spec => []LaunchInv
  BY LaunchInvInit, LaunchInvStep, PTL DEF Spec

\* Type correctness of files, bundle and place.
THEOREM LaunchTypeCorrect == Spec => []LaunchTypeOK
<1>1. LaunchInv => LaunchTypeOK
  BY DEF LaunchInv
<1> QED
  BY <1>1, LaunchInvHolds, PTL

\* An exit code names a fault; what reaches Python has none, in every build.
THEOREM ExitsHaveFaults == Spec => []ExitNamesAFault
<1>1. LaunchInv => ExitNamesAFault
  BY DEF LaunchInv
<1> QED
  BY <1>1, LaunchInvHolds, PTL

\* What the wrapper accepts the helper accepts, except for files that cannot be
\* read.
THEOREM TwoChecksAgree == Spec => []AcceptedByBoth
<1>1. LaunchInv => AcceptedByBoth
  BY DEF LaunchInv
<1> QED
  BY <1>1, LaunchInvHolds, PTL

\* A successful --validate-only is the promise of a launch.
THEOREM VouchedLaunches == Spec => []ValidateOnlyPredicts
<1>1. LaunchInv => ValidateOnlyPredicts
  BY DEF LaunchInv
<1> QED
  BY <1>1, LaunchInvHolds, PTL

\* Hidden stays hidden, whatever is changed between the steps of a load, and
\* however often, as long as the lists only get stricter.
THEOREM HiddenThroughLoad == Spec => []HiddenStaysHidden
<1>1. ASSUME LaunchInv PROVE HiddenStaysHidden
  <2>1. SUFFICES ASSUME place.at = "loaded", ~loosened, slipped = {}, NEW id \in hidden
                 PROVE  ~IsReadAllowed(id, Nobody, policy)
    BY DEF HiddenStaysHidden
  <2>2. Coming(1) = policy.mode /\ Coming(2) = policy.blocklist /\ Coming(3) = policy.allowlist
    BY <2>1, ComingIs
  <2>3. ~Shows(id, Coming(1), Coming(2), Coming(3))
    BY <1>1, <2>1 DEF LaunchInv, ComingHides, Shows
  <2> QED
    BY <2>2, <2>3 DEF Shows, IsReadAllowed, IsBlocked
<1> QED
  BY <1>1, LaunchInvHolds, PTL

\* The policy that a hardened helper loads allows nothing but what a private
\* list of root's grants when it is read, whatever has become of the files
\* since the wrapper checked them, unless the list itself is exchanged between
\* its lstat and its read. The mode, which has been read by then, is the one
\* that the environment fixes.
THEOREM RootGrantsAll == Spec => OnlyRootGrants
<1> DEFINE a == files["allowlist"]
           RootsList == There(a) /\ Regular(a) /\ a.owner = "root" /\ Private(a)
           Grants == \/ "allowlist" \in slipped'
                     \/ {id \in Ids : IsReadAllowed(id, Nobody, policy')} \subseteq
                          IF RootsList THEN Granted(a) ELSE {}
<1>1. ASSUME LaunchInv, [Next]_vars, build = "hardened", place.at # "loaded", place'.at = "loaded"
      PROVE  Grants
  <2>0. LoadOK /\ PolicyTyped(policy) /\ admitted \in BOOLEAN
    BY <1>1 DEF LaunchInv, LaunchTypeOK, PolicyTyped
  <2>h. Override = "allowlist" /\ BridgeRole = "host" /\ RootRequired /\ ~ProductMode
    BY <1>1, HardenedEnvironment
  <2>1. ReadPolicyFile
    BY <1>1, <2>h, WhoMoves, Landing, HelperLanding, Apart
  <2> DEFINE n == place.n
             f == LoadOrder[place.n]
  <2>2. place.at = "read" /\ n \in 1 .. 3
    BY <2>0, <2>1, HelperLanding DEF LoadOK, Loading
  <2>3. /\ ~(n < 3)
        /\ policy' = [policy EXCEPT ![Part(f)] = Value(f, admitted, files[f])]
        /\ slipped' = IF admitted /\ Rejected(f, files[f]) THEN slipped \cup {f} ELSE slipped
    BY <1>1, <2>1, HelperLanding
  <2>4. n = 3
    <3> HIDE DEF n
    <3> QED
      BY <2>2, <2>3
  <2>5. f = "allowlist"
    BY <2>4, Order
  <2>6. policy.mode = "allowlist"
    <3>1. place.n > 1
      BY <2>4
    <3> QED
      BY <1>1, <2>0, <2>2, <3>1 DEF LoadOK, Loading
  <2>7. policy' = [policy EXCEPT !["allowlist"] = LoadList(admitted, a)]
    BY <2>3, <2>5 DEF Part, Value
  <2>8. policy'.mode = "allowlist" /\ policy'.allowlist = LoadList(admitted, a)
    BY <2>0, <2>6, <2>7 DEF PolicyTyped
  <2>9. CASE admitted /\ Rejected("allowlist", a)
    BY <2>3, <2>5, <2>9
  <2>10. CASE admitted /\ ~Rejected("allowlist", a)
    <3>1. ~ListRejected(a, RootRequired, ProductMode)
      BY <2>10 DEF Rejected
    <3>2. RootsList
      BY <2>h, <3>1 DEF ListRejected
    <3>3. policy'.allowlist = a.content
      BY <2>8, <2>10 DEF LoadList
    <3> HIDE DEF a, RootsList
    <3> QED
      BY <2>8, <3>2, <3>3 DEF IsReadAllowed, Granted
  <2>11. CASE ~admitted
    <3>1. policy'.allowlist = {}
      BY <2>8, <2>11 DEF LoadList
    <3>2. {id \in Ids : IsReadAllowed(id, Nobody, policy')} = {}
      BY <2>8, <3>1 DEF IsReadAllowed, MatchesList
    <3> QED
      BY <3>2
  <2> QED
    BY <2>9, <2>10, <2>11
<1>2. LaunchInv /\ [Next]_vars =>
        (build = "hardened" /\ place.at # "loaded" /\ place'.at = "loaded" => Grants)
  BY <1>1
<1> QED
  BY <1>2, LaunchInvHolds, PTL DEF Spec, OnlyRootGrants

-----------------------------------------------------------------------------
(* Damage to a file: what it leaves alone, and what the file was before.   *)

CheckNames == {"owner", "icon_there", "seal_bundle", "seal_confirm", "seal_python",
               "allowlist", "allowlist_private"} \cup Code

\* the damage is the whole step
LEMMA DamageChanges ==
  ASSUME FilesTyped, [Next]_vars, NEW f \in Code \cup Policy, Damaged(f)
  PROVE  /\ \A g \in Code \cup Policy : g # f => files'[g] = files[g]
         /\ build' = build /\ bundle' = bundle /\ icon' = icon /\ dry' = dry
<1>1. files'[f] # files[f]
  BY DEF Damaged
<1>2. PICK g \in Code \cup Policy : ChangeFile(g)
  BY <1>1, Frame
<1>3. PICK a : files' = [files EXCEPT ![g] = a]
  BY <1>2 DEF ChangeFile
<1>4. \A h \in Code \cup Policy : h # g => files'[h] = files[h]
  BY <1>3 DEF FilesTyped
<1>5. g = f
  BY <1>1, <1>4
<1> QED
  BY <1>2, <1>4, <1>5 DEF ChangeFile

\* an installed file, field by field
LEMMA WasInstalled ==
  ASSUME NEW f \in Code \cup Policy, Damaged(f)
  PROVE  /\ files[f].kind = "file"
         /\ files[f].owner = IF build = "hardened" /\ f \in Code \cup {"allowlist"}
                             THEN "root" ELSE "user"
         /\ files[f].access = IF f \in Policy THEN "private" ELSE "shared"
         /\ f \in {"confirm", "python"} => files[f].exec
<1>1. files[f] = Installed(f, files[f].content)
  BY DEF Damaged
<1> DEFINE c == files[f].content
<1> HIDE DEF c
<1>2. files[f] = Installed(f, c)
  BY <1>1 DEF c
<1> DEFINE e == f \in {"confirm", "python"}
<1>3. e \in BOOLEAN /\ (f \in {"confirm", "python"} => e)
  OBVIOUS
<1>4. files[f] =
        [kind    |-> "file",
         owner   |-> IF build = "hardened" /\ f \in Code \cup {"allowlist"} THEN "root" ELSE "user",
         access  |-> IF f \in Policy THEN "private" ELSE "shared",
         exec    |-> e,
         content |-> c]
  BY <1>2, Zenon DEF Installed
<1> HIDE DEF e
<1> QED
  BY <1>3, <1>4

\* an installed file passes the check that looks at it
LEMMA InstalledPasses ==
  ASSUME NEW f \in Code \cup Policy, Damaged(f)
  PROVE  /\ f \in Code => Verdict(f) = 0
         /\ f = "allowlist" /\ build = "hardened" =>
              Verdict("allowlist") = 0 /\ Verdict("allowlist_private") = 0
<1>1. /\ There(files[f]) /\ Regular(files[f])
      /\ files[f].access # "writable"
  BY WasInstalled DEF There, Regular
<1>2. ASSUME f \in Code PROVE Verdict(f) = 0
  <2>0. f \in {"helper.py", "send_gate.py", "confirm", "icon", "python"}
    BY <1>2 DEF Code
  <2>1. CASE Product
    <3>1. files[f].owner = bundle.owner
      BY <2>1, WasInstalled DEF Damaged, Product
    <3>2. \A x \in BOOLEAN : (x => files[f].exec) => ValidateOwnership(files[f], x) = 0
      BY <1>1, <3>1 DEF ValidateOwnership
    <3>3. ValidateOwnership(files[f], f \in {"confirm", "python"}) = 0
      <4> DEFINE x == f \in {"confirm", "python"}
      <4>1. x \in BOOLEAN /\ (x => files[f].exec)
        BY WasInstalled
      <4> HIDE DEF x
      <4>2. ValidateOwnership(files[f], x) = 0
        BY <3>2, <4>1
      <4> QED
        BY <4>2 DEF x
    <3> QED
      BY <2>0, <2>1, <3>3 DEF Verdict, Code
  <2>2. CASE ~Product
    <3>1. files[f].owner = CodeOwner
      BY <1>2, WasInstalled DEF CodeOwner
    <3>2. \A x \in BOOLEAN : (x => files[f].exec) => ValidateFile(files[f], CodeOwner, x) = 0
      BY <1>1, <3>1 DEF ValidateFile
    <3>3. ValidateFile(files[f], CodeOwner, f = "confirm") = 0
      <4> DEFINE x == f = "confirm"
      <4>1. x \in BOOLEAN /\ (x => files[f].exec)
        BY WasInstalled
      <4> HIDE DEF x
      <4>2. ValidateFile(files[f], CodeOwner, x) = 0
        BY <3>2, <4>1
      <4> QED
        BY <4>2 DEF x
    <3> QED
      BY <2>0, <2>2, <3>3 DEF Verdict, Code
  <2> QED
    BY <2>1, <2>2
<1>3. ASSUME f = "allowlist", build = "hardened"
      PROVE  Verdict("allowlist") = 0 /\ Verdict("allowlist_private") = 0
  <2>1. files[f].owner = "root" /\ Private(files[f])
    BY <1>3, WasInstalled DEF Private, Policy
  <2>2. ValidateFile(files["allowlist"], "root", FALSE) = 0
    BY <1>1, <1>3, <2>1 DEF ValidateFile
  <2>3. ValidatePrivate(files["allowlist"]) = 0
    BY <1>1, <1>3, <2>1 DEF ValidatePrivate
  <2> QED
    BY <2>2, <2>3, VerdictIs
<1> QED
  BY <1>2, <1>3

\* no damage makes a check pass that failed
LEMMA DamagePassesNothing ==
  ASSUME FilesTyped, [Next]_vars, NEW f \in Code \cup Policy, Damaged(f),
         NEW c \in CheckNames, c \in {"allowlist", "allowlist_private"} => build = "hardened",
         Verdict(c)' = 0
  PROVE  Verdict(c) = 0
<1>0. /\ build' = build /\ bundle' = bundle /\ icon' = icon /\ dry' = dry
      /\ \A g \in Code \cup Policy : g # f => files'[g] = files[g]
  BY DamageChanges
<1>1. (Product' <=> Product) /\ CodeOwner' = CodeOwner
  BY <1>0 DEF Product, CodeOwner
<1>4. CASE c \in {"owner", "icon_there", "seal_bundle", "seal_confirm", "seal_python"}
  <2>1. Verdict(c)' = Verdict(c)
    BY <1>0, <1>1, <1>4 DEF Verdict, Code
  <2> QED
    BY <2>1
<1>5. CASE c \in Code /\ c # f
  <2>1. files'[c] = files[c]
    BY <1>0, <1>5
  <2>2. \A a, x : ValidateOwnership(a, x)' = ValidateOwnership(a, x)
    BY <1>0 DEF ValidateOwnership
  <2>3. Verdict(c)' = Verdict(c)
    BY <1>0, <1>1, <1>5, <2>1, <2>2 DEF Verdict, Code
  <2> QED
    BY <2>3
<1>6. CASE c \in Code /\ c = f
  BY <1>6, InstalledPasses
<1>7. CASE c \in {"allowlist", "allowlist_private"} /\ f # "allowlist"
  <2>1. files'["allowlist"] = files["allowlist"]
    BY <1>0, <1>7 DEF Policy
  <2>2. \A a, o, x : ValidateFile(a, o, x)' = ValidateFile(a, o, x)
    OBVIOUS
  <2>3. Verdict(c)' = Verdict(c)
    BY <1>7, <2>1, <2>2 DEF Verdict, Code, ValidatePrivate
  <2> QED
    BY <2>3
<1>8. CASE c \in {"allowlist", "allowlist_private"} /\ f = "allowlist"
  BY <1>8, InstalledPasses
<1> QED
  BY <1>4, <1>5, <1>6, <1>7, <1>8 DEF CheckNames

LEMMA DomainIsSteps == DOMAIN Checks = Steps
<1>1. CASE Product
  BY <1>1 DEF Checks, Steps
<1>2. CASE ~Product /\ build = "hardened"
  <2>1. Checks = <<"helper.py", "send_gate.py", "confirm">> \o <<"allowlist", "allowlist_private">>
    BY <1>2 DEF Checks
  <2>2. DOMAIN Checks = 1 .. 5 /\ Len(Checks) = 5
    BY <2>1
  <2> QED
    BY <2>2 DEF Steps
<1>3. CASE ~Product /\ build # "hardened"
  <2>1. Checks = <<"helper.py", "send_gate.py", "confirm">> \o << >>
    BY <1>3 DEF Checks
  <2>2. Checks = <<"helper.py", "send_gate.py", "confirm">>
    BY <2>1
  <2> QED
    BY <2>2 DEF Steps
<1> QED
  BY <1>1, <1>2, <1>3

\* the list is checked in the hardened build only
LEMMA ListIsHardened ==
  ASSUME NEW k \in Steps, Checks[k] \in {"allowlist", "allowlist_private"}
  PROVE  build = "hardened"
<1>1. CASE Product
  <2>1. k \in {1, 2, 3, 4, 5, 6, 7, 8, 9, 10}
    BY <1>1, StepsAre
  <2> QED
    BY <1>1, <2>1, ChecksList
<1>2. CASE ~Product /\ build # "hardened"
  <2>1. k \in {1, 2, 3}
    BY <1>2, StepsAre
  <2> QED
    BY <1>2, <2>1, ChecksList
<1> QED
  BY <1>1, <1>2

\* an installed file can be read
LEMMA InstalledReads ==
  ASSUME NEW f \in Code \cup Policy, Damaged(f)
  PROVE  /\ Readable(files[f]) /\ Opens(files[f])
         /\ f = "read_policy" => files[f].content # "binary"
         /\ f = "python" => files[f].exec
         /\ f = "send_gate.py" => ~SendGateRejected(files[f])
<1>1. /\ files[f].kind = "file" /\ files[f].access \in {"private", "shared"}
      /\ files[f].owner \in {"root", "user"} /\ (f = "python" => files[f].exec)
  BY WasInstalled
<1>2. Readable(files[f]) /\ Opens(files[f])
  BY <1>1 DEF Readable, Opens
<1>3. ~SendGateRejected(files[f])
  BY <1>1 DEF SendGateRejected, There, Regular
<1> QED
  BY <1>1, <1>2, <1>3 DEF Damaged

\* no damage makes a policy file readable that was not
LEMMA DamageReadsNothing ==
  ASSUME FilesTyped, [Next]_vars, NEW f \in Code \cup Policy, Damaged(f), PolicyRaises
  PROVE  PolicyRaises'
<1>0. /\ build' = build /\ dry' = dry
      /\ \A g \in Policy : g # f => files'[g] = files[g]
  BY DamageChanges
<1>1. /\ Environment' = Environment /\ (ProductMode' <=> ProductMode)
      /\ BridgeRole' = BridgeRole /\ Override' = Override /\ (RootRequired' <=> RootRequired)
  BY <1>0, SameEnvironment
<1>2. BridgeRole # "manager"
  BY DEF PolicyRaises
<1>3. PICK k \in 1 .. 3 : Raises(LoadOrder[k], ~Rejected(LoadOrder[k], files[LoadOrder[k]]),
                                 files[LoadOrder[k]])
  BY DEF PolicyRaises
<1> DEFINE g == LoadOrder[k]
<1>4. g \in {"read_policy", "blocklist", "allowlist"} /\ g \in Policy
  <2>1. k \in {1, 2, 3}
    OBVIOUS
  <2> QED
    BY <2>1, Order DEF Policy
<1>5. ~Rejected(g, files[g]) /\ Raises(g, TRUE, files[g])
  BY <1>3 DEF Raises
<1>6. g # f
  BY <1>5, InstalledReads DEF Raises
<1>7. files'[g] = files[g]
  BY <1>0, <1>4, <1>6
<1>8. Rejected(g, files[g])' = Rejected(g, files[g])
  BY <1>0, <1>7, SameRejected
<1>9. Raises(g, ~Rejected(g, files[g]), files[g])'
  <2>1. ~Rejected(g, files[g])'
    BY <1>5, <1>7, <1>8
  <2> QED
    BY <1>1, <1>4, <1>5, <1>7, <2>1 DEF Raises
<1> QED
  BY <1>1, <1>2, <1>9 DEF PolicyRaises, LoadOrder

\* nor Python or a module of the helper
LEMMA DamageOpensNothing ==
  ASSUME FilesTyped, [Next]_vars, NEW f \in Code \cup Policy, Damaged(f)
  PROVE  /\ Opens(files'["python"]) /\ files'["python"].exec =>
              Opens(files["python"]) /\ files["python"].exec
         /\ Readable(files'["helper.py"]) => Readable(files["helper.py"])
         /\ ~SendGateRejected(files'["send_gate.py"]) => ~SendGateRejected(files["send_gate.py"])
         /\ Readable(files'["send_gate.py"]) => Readable(files["send_gate.py"])
<1>1. \A g \in Code \cup Policy : g # f => files'[g] = files[g]
  BY DamageChanges
<1>2. \A g \in {"python", "helper.py", "send_gate.py"} : g # f => files'[g] = files[g]
  BY <1>1 DEF Code
<1> QED
  BY <1>2, InstalledReads

\* a damaged list is the same list or none, and a damaged mode file gives the
\* same mode or the closed one
LEMMA DamageShowsNothing ==
  ASSUME FilesTyped, [Next]_vars, NEW f \in Code \cup Policy, Damaged(f),
         f # "blocklist", build \in Builds, build # "manager", build = "diy" => f # "read_policy",
         NEW id, IsReadAllowed(id, Nobody, LoadPrivacyPolicy')
  PROVE  IsReadAllowed(id, Nobody, LoadPrivacyPolicy)
<1>0. /\ build' = build /\ dry' = dry
      /\ \A g \in Policy : g # f => files'[g] = files[g]
  BY DamageChanges
<1>1. /\ Environment' = Environment /\ (ProductMode' <=> ProductMode)
      /\ BridgeRole' = BridgeRole /\ Override' = Override /\ (RootRequired' <=> RootRequired)
  BY <1>0, SameEnvironment
<1>2. BridgeRole # "manager" /\ (ProductMode <=> Product)
      /\ (Override \notin {"allowlist", "blocklist"} => build # "hardened")
  BY HardenedEnvironment, WhichEnvironment
<1>3. LoadPrivacyPolicy.blocklist = Effective("blocklist")
      /\ LoadPrivacyPolicy.allowlist = Effective("allowlist")
      /\ LoadPrivacyPolicy.mode = Effective("read_policy")
  BY <1>2, EffectiveIs
<1>4. LoadPrivacyPolicy'.blocklist = Effective("blocklist")'
      /\ LoadPrivacyPolicy'.allowlist = Effective("allowlist")'
      /\ LoadPrivacyPolicy'.mode = Effective("read_policy")'
  BY <1>1, <1>2 DEF LoadPrivacyPolicy
<1>e. ASSUME NEW g \in Policy, g # f PROVE Effective(g)' = Effective(g)
  <2>1. files'[g] = files[g]
    BY <1>0, <1>e
  <2> QED
    BY <1>0, <2>1, SameRejected
<1>5. LoadPrivacyPolicy'.blocklist = LoadPrivacyPolicy.blocklist
  BY <1>3, <1>4, <1>e DEF Policy
<1>6. LoadPrivacyPolicy'.allowlist \subseteq LoadPrivacyPolicy.allowlist
  <2>1. CASE f # "allowlist"
    BY <1>3, <1>4, <1>e, <2>1 DEF Policy
  <2>2. CASE f = "allowlist"
    <3>1. ~Rejected("allowlist", files["allowlist"])
      <4>1. /\ There(files[f]) /\ Regular(files[f]) /\ Private(files[f])
            /\ files[f].owner = IF build = "hardened" THEN "root" ELSE "user"
            /\ files[f].access # "writable"
        BY <2>2, WasInstalled DEF There, Regular, Private, Policy
      <4>2. (RootRequired => build = "hardened") /\ (build = "hardened" => ~ProductMode)
        BY WhichEnvironment, HardenedEnvironment
      <4>3. ~ListRejected(files["allowlist"], RootRequired, ProductMode)
        BY <2>2, <4>1, <4>2 DEF ListRejected, UserOwnerRejected
      <4> QED
        BY <4>3 DEF Rejected
    <3>2. LoadPrivacyPolicy.allowlist = files["allowlist"].content
      BY <1>3, <3>1 DEF Effective, Value, LoadList
    <3>3. \/ LoadPrivacyPolicy'.allowlist = {}
          \/ /\ There(files'["allowlist"])
             /\ LoadPrivacyPolicy'.allowlist = files'["allowlist"].content
      BY <1>4 DEF Effective, Value, LoadList, Rejected, ListRejected
    <3> QED
      BY <2>2, <3>2, <3>3 DEF Damaged
  <2> QED
    BY <2>1, <2>2
<1>7. LoadPrivacyPolicy'.mode = LoadPrivacyPolicy.mode \/ LoadPrivacyPolicy'.mode = "allowlist"
  <2>0. /\ Effective("read_policy") =
             ReadMode(~ModeRejected(files["read_policy"]), files["read_policy"])
        /\ Effective("read_policy")' =
             ReadMode(~ModeRejected(files["read_policy"]), files["read_policy"])'
    BY DEF Effective, Value, Rejected
  <2>1. CASE f # "read_policy"
    BY <1>3, <1>4, <1>e, <2>1 DEF Policy
  <2>2. CASE f = "read_policy" /\ Override \in {"allowlist", "blocklist"}
    BY <1>1, <1>3, <1>4, <2>0, <2>2 DEF ReadMode
  <2>3. CASE f = "read_policy" /\ Override \notin {"allowlist", "blocklist"}
    <3>1. ProductMode /\ ProductMode'
      BY <1>1, <1>2, <2>3, WhichEnvironment, BuildsKnown DEF Product
    <3>2. CASE ModeRejected(files["read_policy"])'
      BY <1>1, <1>4, <2>0, <2>3, <3>2 DEF ReadMode
    <3>3. CASE ~ModeRejected(files["read_policy"])'
      <4>1. There(files'["read_policy"])
            /\ files'["read_policy"].content = files["read_policy"].content
        BY <2>3, <3>1, <3>3 DEF ModeRejected, Damaged
      <4>2. ~ModeRejected(files["read_policy"]) /\ There(files["read_policy"])
        <5>1. /\ There(files[f]) /\ Regular(files[f]) /\ files[f].access = "private"
              /\ files[f].owner = "user"
          BY <1>2, <2>3, <3>1, WasInstalled DEF There, Regular, Policy, Product
        <5> QED
          BY <2>3, <5>1 DEF ModeRejected, UserOwnerRejected
      <4> QED
        BY <1>1, <1>3, <1>4, <2>0, <2>3, <3>3, <4>1, <4>2 DEF ReadMode
    <3> QED
      BY <3>2, <3>3
  <2> QED
    BY <2>1, <2>2, <2>3
<1>8. MatchesList(id, Nobody, LoadPrivacyPolicy'.allowlist)
        => MatchesList(id, Nobody, LoadPrivacyPolicy.allowlist)
  BY <1>6 DEF MatchesList
<1> QED
  BY <1>5, <1>7, <1>8 DEF IsReadAllowed, IsBlocked

\* nor does the send policy come to enable what it did not
LEMMA DamageSendsNothing ==
  ASSUME FilesTyped, [Next]_vars, NEW f \in Code \cup Policy, Damaged(f),
         SendEnabled(files["send_policy"])'
  PROVE  SendEnabled(files["send_policy"])
<1>0. /\ build' = build /\ dry' = dry
      /\ \A g \in Policy : g # f => files'[g] = files[g]
  BY DamageChanges
<1>1. ProductMode' <=> ProductMode
  BY <1>0, SameEnvironment
<1>2. CASE f # "send_policy"
  <2>1. files'["send_policy"] = files["send_policy"]
    BY <1>0, <1>2 DEF Policy
  <2> QED
    BY <1>1, <2>1 DEF SendEnabled
<1>3. CASE f = "send_policy"
  <2>1. /\ There(files[f]) /\ Regular(files[f]) /\ files[f].access # "writable"
        /\ files[f].owner = "user"
    BY <1>3, WasInstalled DEF There, Regular, Policy, Code
  <2>2. ProductMode => There(files'[f]) /\ files'[f].content = "enabled"
    BY <1>1, <1>3 DEF SendEnabled
  <2>3. ProductMode => files[f].content = "enabled"
    BY <2>2 DEF Damaged
  <2> QED
    BY <1>3, <2>1, <2>3 DEF SendEnabled
<1> QED
  BY <1>2, <1>3

\* No loss of a file, of its owner or of its mode lets a launch read or send
\* what it did not: the checks of the wrapper, the files that stop a helper
\* and the defaults of the policy only ever close.
THEOREM DamageCloses == Spec => DamageNeverOpens
<1> DEFINE Guarded(f) == f \in (Code \cup Policy)
              \ ({"blocklist"} \cup IF build = "diy" THEN {"read_policy"} ELSE {})
<1>1. ASSUME LaunchInv, [Next]_vars, build # "manager", NEW f, Guarded(f), Damaged(f)
      PROVE  WouldRead' \subseteq WouldRead /\ (WouldSend' => WouldSend)
  <2>0. FilesTyped /\ build \in Builds /\ f \in Code \cup Policy /\ f # "blocklist"
        /\ (build = "diy" => f # "read_policy")
    BY <1>1 DEF LaunchInv, LaunchTypeOK, FilesTyped
  <2>1. build' = build /\ dry' = dry
    BY <1>1, <2>0, DamageChanges
  <2>2. Checks' = Checks
    BY <2>1 DEF Checks, Product
  <2>3. ASSUME WouldRun' PROVE WouldRun
    <3>1. ASSUME NEW k \in DOMAIN Checks PROVE Verdict(Checks[k]) = 0
      <4>1. Verdict(Checks[k])' = 0
        BY <2>2, <2>3 DEF WouldRun
      <4>2. k \in Steps
        BY ChecksBounded, DomainIsSteps
      <4>3. PICK c : c = Checks[k]
        OBVIOUS
      <4>4. Verdict(c)' = 0
        BY <2>2, <4>1, <4>3
      <4>5. c \in CheckNames /\ (c \in {"allowlist", "allowlist_private"} => build = "hardened")
        BY <4>2, <4>3, ChecksAre, ListIsHardened DEF CheckNames
      <4> QED
        BY <1>1, <2>0, <4>3, <4>4, <4>5, DamagePassesNothing
    <3>2. ~PolicyRaises
      BY <1>1, <2>0, <2>3, DamageReadsNothing DEF WouldRun
    <3>3. /\ Opens(files["python"]) /\ files["python"].exec
          /\ Readable(files["helper.py"])
          /\ ~SendGateRejected(files["send_gate.py"]) /\ Readable(files["send_gate.py"])
      <4>1. /\ Opens(files'["python"]) /\ files'["python"].exec
            /\ Readable(files'["helper.py"])
            /\ ~SendGateRejected(files'["send_gate.py"]) /\ Readable(files'["send_gate.py"])
        BY <2>3 DEF WouldRun
      <4> QED
        BY <1>1, <2>0, <4>1, DamageOpensNothing
    <3> QED
      BY <3>1, <3>2, <3>3 DEF WouldRun
  <2>4. WouldRead' \subseteq WouldRead
    BY <1>1, <2>0, <2>3, DamageShowsNothing DEF WouldRead
  <2>5. WouldSend' => WouldSend
    BY <1>1, <2>0, <2>3, DamageSendsNothing DEF WouldSend
  <2> QED
    BY <2>4, <2>5
<1>2. LaunchInv /\ [Next]_vars =>
        (build # "manager" =>
           \A f \in (Code \cup Policy)
                     \ ({"blocklist"} \cup IF build = "diy" THEN {"read_policy"} ELSE {}) :
             Damaged(f) => WouldRead' \subseteq WouldRead /\ (WouldSend' => WouldSend))
  BY <1>1
<1> QED
  BY <1>2, LaunchInvHolds, PTL DEF Spec, DamageNeverOpens
=============================================================================
