----------------------------- MODULE PolicyMatch -----------------------------
(***************************************************************************)
(* How the privacy policy of bin/helper.py decides about a message: which  *)
(* entries of a list match a chat and a sender, and what a policy allows.  *)
(*                                                                         *)
(* An identifier, of a chat or of a person, and likewise an entry of a     *)
(* list, is a record:                                                      *)
(*   name    the text of it, casefolded                                    *)
(*   digits  its last ten digits, or NoDigits when it has fewer            *)
(*   email   whether it contains "@"                                       *)
(*   group   whether it starts with "chat"                                 *)
(*   holds   the texts that it contains and that some query looks for      *)
(* "holds" plays no part in matching: a list is never matched by substring.*)
(***************************************************************************)

NoDigits == ""

\* The missing identifier: the sender of one's own messages, a blank chat.
Nobody == [name |-> "", digits |-> NoDigits, email |-> FALSE,
           group |-> FALSE, holds |-> {}]

\* One turn of the loop of _matches_list, for one of the two identifiers.
EntryMatches(entry, id) ==
  \/ /\ entry.name = id.name
     /\ entry.email \/ entry.group \/ entry.digits = NoDigits
  \/ /\ ~entry.group
     /\ ~id.group
     /\ entry.digits # NoDigits
     /\ entry.digits = id.digits

MatchesList(chat, sender, entries) ==
  \E entry \in entries : \E id \in {chat, sender} : EntryMatches(entry, id)

IsBlocked(chat, sender, policy) == MatchesList(chat, sender, policy.blocklist)

IsReadAllowed(chat, sender, policy) ==
  /\ ~IsBlocked(chat, sender, policy)
  /\ policy.mode = "allowlist" => MatchesList(chat, sender, policy.allowlist)

\* What load_privacy_policy returns on a management bridge.
OpenPolicy == [mode |-> "blocklist", blocklist |-> {}, allowlist |-> {}]

-----------------------------------------------------------------------------
(* The key under which load_contacts files an identifier. *)
ContactKey(id) == IF id.email THEN id.name ELSE id.digits

(* lookup_name: the contact for the chat or, failing that, for the sender; *)
(* a set of at most one, of those in contacts.                             *)
LookupName(chat, sender, contacts) ==
  LET Filed(id) == {c \in contacts : /\ ContactKey(id) # NoDigits
                                     /\ ContactKey(c) = ContactKey(id)}
  IN  IF Filed(chat) # {} THEN Filed(chat) ELSE Filed(sender)

\* For a mutation run: contacts are filtered by the blocklist only.
FilterContactsBlocked(contacts, policy) ==
  {c \in contacts : ~IsBlocked(c, c, policy)}

(* filter_contacts *)
FilterContacts(contacts, policy) ==
  {c \in contacts : IsReadAllowed(c, c, policy)}
=============================================================================
