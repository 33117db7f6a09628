--------------------------- MODULE MCReadActions ---------------------------
(* Instances of ReadActions for TLC. *)
EXTENDS ReadActions

\* Two people with phones, a group whose identifier ends in the second one's
\* digits, and a short code.
Ann  == [name |-> "+14155551234", digits |-> "4155551234", email |-> FALSE,
         group |-> FALSE, holds |-> {"4155551234"}]
Bob  == [name |-> "+14155555678", digits |-> "4155555678", email |-> FALSE,
         group |-> FALSE, holds |-> {"4155555678"}]
Crew == [name |-> "chat4155555678", digits |-> "4155555678", email |-> FALSE,
         group |-> TRUE, holds |-> {"4155555678", "chat4155555678"}]
Code == [name |-> "72345", digits |-> NoDigits, email |-> FALSE,
         group |-> FALSE, holds |-> {}]

MCContacts == {Ann, Bob}
MCPerson   == [c \in MCContacts |-> IF c = Ann THEN "Ann" ELSE "Bob"]

MCShortCodes == {Code}

Policy(mode, blocked, allowed) ==
  [mode |-> mode, blocklist |-> blocked, allowlist |-> allowed]
MCPolicies == {OpenPolicy, Policy("blocklist", {Bob}, {}),
               Policy("allowlist", {}, {Ann}), Policy("allowlist", {Bob}, {Crew})}

\* For what is read in chats: a chat, a group and a short code.
Threads ==
  [rows     |-> {"a", "g", "c"},
   ident    |-> [a |-> Ann, g |-> Crew, c |-> Code],
   members  |-> [a |-> {Ann}, g |-> {Ann, Bob}, c |-> {Code}],
   titles   |-> [a |-> "", g |-> "", c |-> ""],
   texts    |-> {"person", "automated", "low"},
   policies |-> MCPolicies,
   roles    |-> {"host", "manager", "unknown"},
   asked    |-> {"review", "search", "chat_history", "response_stats", "contacts_lookup"},
   queries  |-> {[by |-> "name", text |-> "Bob"], [by |-> "id", text |-> "4155551234"]},
   windows  |-> {2, 3},
   limits   |-> {1, 2},
   size     |-> 3]

\* For list_chats: four rows, among them a chat without an identifier and two
\* rows with the same one.
Directory ==
  [rows     |-> {"a", "s", "g", "n"},
   ident    |-> [a |-> Ann, s |-> Ann, g |-> Crew, n |-> Nobody],
   members  |-> [a |-> {Ann}, s |-> {Ann}, g |-> {Ann, Bob}, n |-> {Bob}],
   titles   |-> [a |-> "", s |-> "", g |-> "Crew", n |-> ""],
   texts    |-> {"person"},
   policies |-> {OpenPolicy},
   roles    |-> {"manager"},
   asked    |-> {"list_chats"},
   queries  |-> {[by |-> "name", text |-> "Ann"], [by |-> "name", text |-> "Crew"],
                 [by |-> "id", text |-> "4155555678"]},
   windows  |-> {2, 4},
   limits   |-> {1, 2},
   size     |-> 4]

MCWorlds == {Threads, Directory}
=============================================================================
