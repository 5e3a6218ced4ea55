----------------------------- MODULE NodeImport ------------------------------
(***************************************************************************)
(* How the nodes of a server answer become nodes of the session            *)
(* (libtools/oldmega.c: mega_node_parse, add_share_key, handle_auth, the   *)
(* 'ok' and 'f' arrays in mega_session_refresh and in                      *)
(* mega_session_open_exp_folder).  A node's key comes in parts, each       *)
(* encrypted for one user or one share; share keys arrive in the 'ok'      *)
(* array and with the share's own root node, anywhere in the 'f' array,    *)
(* and stay in the session from refresh to refresh.                        *)
(*                                                                         *)
(* A key is named by what it is the key of.  Decryption with another key   *)
(* gives attributes that do not parse.  A share key that was encrypted for *)
(* somebody else decrypts all the same, to a key of nothing: nobody checks *)
(* it before it takes the place of the key held for that share.            *)
(***************************************************************************)
EXTENDS Integers, SequencesExt

CONSTANTS
    Handles,    \* handles of files and folders
    Me,         \* s->user_handle, and the name of the master key
    Stranger,   \* a user or share whose key the session never gets
    None,       \* NULL
    Answers,    \* records of f and ok, the two arrays, and exported, whether it answers for a folder
    MaxRounds   \* bound: refreshes

VARIABLES
    exported,   \* the session is an exported folder's, not a user's
    f,          \* the 'f' array
    ok,         \* the 'ok' array: for a handle, if its ha is right and what its k decrypts to
    at,         \* how far the array has been read, None outside a refresh
    shareKeys,  \* s->share_keys: the key stored for a handle
    imported,   \* the list under construction
    nodes,      \* s->fs_nodes
    rounds      \* refreshes finished, of a folder since it last failed to open

vars == <<exported, f, ok, at, shareKeys, imported, nodes, rounds>>

\* One entry of the 'f' array: its handle, its parent, the parts of its key (none
\* also if it lacks attributes), and what the share key it may carry decrypts to,
\* None for one that cannot be decrypted.
ShareKeys == Handles \cup {Stranger, None}
Parts == [owner : Handles \cup {Me, Stranger}, rsa : BOOLEAN]
Entries == [h : Handles, p : Handles \cup {None}, k : Seq(Parts), sk : ShareKeys]

\* One of the 'ok' array; a handle has k = None if it has no entry there, or one
\* with a member missing or a k that cannot be decrypted.
OkEntries == [ha : BOOLEAN, k : ShareKeys]

KeyNames == Handles \cup {Me, Stranger, None}

\* What the constants must satisfy.  No share key in the answer for an exported
\* folder comes out right: who follows a link has no key they were encrypted with.
ASSUME ImportAssumption ==
    /\ Me # Stranger /\ None \notin Handles \cup {Me, Stranger} \cup Parts \cup Nat
    /\ {Me, Stranger} \cap Handles = {}
    /\ MaxRounds \in Nat
    /\ Answers \subseteq [exported : BOOLEAN, f : Seq(Entries), ok : [Handles -> OkEntries]]
    /\ \A answer \in Answers :
          answer.exported => \A i \in DOMAIN answer.f : answer.f[i].sk # answer.f[i].h

-----------------------------------------------------------------------------
(* mega_node_parse.                                                         *)

\* An entry without attributes or without a key is skipped before anything else.
\* Otherwise the share key it carries takes the place of the one held, whether it
\* is right or not, and before the node's own key is looked for.
WithShareKey(entry, keys) ==
    IF entry.k # << >> /\ entry.sk # None THEN [keys EXCEPT ![entry.h] = entry.sk] ELSE keys

Lookup(keys, owner) == IF owner \in Handles THEN keys[owner] ELSE None

\* One turn of the loop over the parts.  A part for a key the session does not
\* have sets node_share_key to NULL but keeps the part found before.
TakePart(keys, found, part) ==
    IF found.stop THEN found
    ELSE IF part.owner = Me /\ ~exported
    THEN [part |-> part, key |-> Me, stop |-> TRUE]
    ELSE [found EXCEPT !.key = Lookup(keys, part.owner),
                       !.part = IF Lookup(keys, part.owner) # None THEN part ELSE @]

FoundKey(entry, keys) ==
    LET found[i \in 0 .. Len(entry.k)] ==
            IF i = 0 THEN [part |-> None, key |-> None, stop |-> FALSE]
            ELSE TakePart(keys, found[i - 1], entry.k[i])
    IN found[Len(entry.k)]

\* What follows the loop: a part, no RSA key, a key to decrypt it with, and
\* attributes the result decrypts.  An entry without a key has no part.
Accepted(entry, keys) ==
    LET found == FoundKey(entry, keys)
    IN /\ found.part # None /\ ~found.part.rsa
       /\ found.key # None /\ found.key = found.part.owner

Node(entry, keys) ==
    [h |-> entry.h, p |-> entry.p, key |-> FoundKey(entry, keys).key,
     of |-> FoundKey(entry, keys).part.owner]

-----------------------------------------------------------------------------
\* Mutant of OkKeys: handle_auth is not asked.
OkKeysUnchecked ==
    [h \in Handles |-> IF ok[h].k # None THEN ok[h].k ELSE shareKeys[h]]

\* The 'ok' array: handle_auth refuses a handle the master key does not vouch for.
\* It says nothing of the key that comes with the handle.
Vouched(h) == ok[h].ha /\ ok[h].k # None
OkKeys == [h \in Handles |-> IF Vouched(h) THEN ok[h].k ELSE shareKeys[h]]

\* Mutant of Begin: the share keys are those of the last answer only.
BeginForgetting ==
    /\ at = None /\ rounds < MaxRounds
    /\ at' = 1 /\ imported' = << >>
    /\ shareKeys' = IF ~exported THEN [h \in Handles |-> IF Vouched(h) THEN ok[h].k ELSE None]
                    ELSE [h \in Handles |-> IF f # << >> /\ h = f[1].h THEN h ELSE None]
    /\ nodes' = IF exported THEN << >> ELSE nodes
    /\ UNCHANGED <<exported, f, ok, rounds>>

\* mega_session_refresh, or mega_session_open_exp_folder, which begins with a
\* session that was closed and takes the link's key for the first node's.
Begin ==
    /\ at = None /\ rounds < MaxRounds
    /\ at' = 1 /\ imported' = << >>
    /\ shareKeys' = IF ~exported THEN OkKeys
                    ELSE [h \in Handles |-> IF f # << >> /\ h = f[1].h THEN h ELSE None]
    /\ nodes' = IF exported THEN << >> ELSE nodes
    /\ UNCHANGED <<exported, f, ok, rounds>>

\* One entry of the 'f' array; an exported folder's root loses its parent.
Import ==
    /\ at # None /\ at <= Len(f)
    /\ LET entry == IF exported /\ at = 1 THEN [f[at] EXCEPT !.p = None] ELSE f[at]
           keys == WithShareKey(entry, shareKeys)
       IN /\ shareKeys' = keys
          /\ imported' = IF Accepted(entry, keys) THEN Append(imported, Node(entry, keys))
                         ELSE imported
    /\ at' = at + 1
    /\ UNCHANGED <<exported, f, ok, nodes, rounds>>

\* The list is put in place.
End ==
    /\ at # None /\ at > Len(f)
    /\ nodes' = imported /\ at' = None /\ rounds' = rounds + 1
    /\ UNCHANGED <<exported, f, ok, shareKeys, imported>>

\* The answer has no 'f' array: the share keys stay, with those of the 'ok' array,
\* and so does the list.  A call that fails changes nothing.
RefreshFails ==
    /\ at = None /\ ~exported
    /\ shareKeys' = OkKeys
    /\ UNCHANGED <<exported, f, ok, at, imported, nodes, rounds>>

\* The link's key is not one, or the call failed: the session is closed by then.
OpenFolderFails ==
    /\ at = None /\ exported
    /\ shareKeys' = [h \in Handles |-> None] /\ nodes' = << >> /\ rounds' = 0
    /\ UNCHANGED <<exported, f, ok, at, imported>>

InitFrom(answer) ==
    /\ f = answer.f /\ exported = answer.exported /\ ok = answer.ok
    /\ at = None /\ shareKeys = [h \in Handles |-> None]
    /\ imported = << >> /\ nodes = << >> /\ rounds = 0

Init == \E answer \in Answers : InitFrom(answer)

Next == Begin \/ Import \/ End \/ RefreshFails \/ OpenFolderFails

Spec == Init /\ [][Next]_vars

-----------------------------------------------------------------------------
HandlesOf(list) == {list[i].h : i \in DOMAIN list}

\* The keys the answer gives for a share: that of an 'ok' entry that is vouched
\* for, those its own entries carry if they are not skipped, and the link's.
Given(h) == {key \in ShareKeys \ {None} :
    \/ ~exported /\ ok[h].ha /\ ok[h].k = key
    \/ \E i \in DOMAIN f : f[i].h = h /\ f[i].k # << >> /\ f[i].sk = key
    \/ exported /\ f # << >> /\ f[1].h = h /\ h = key}

\* The session can read the entry: it has a part for the user, or each part is for
\* a share that is given its own key and no other; and no part is an RSA key.
Readable(entry) ==
    /\ entry.k # << >> /\ \A i \in DOMAIN entry.k : ~entry.k[i].rsa
    /\ \/ ~exported /\ \E i \in DOMAIN entry.k : entry.k[i].owner = Me
       \/ \A i \in DOMAIN entry.k :
             entry.k[i].owner \in Handles /\ Given(entry.k[i].owner) = {entry.k[i].owner}

\* No share key comes from an 'ok' entry whose handle nobody vouches for, from an
\* entry that is skipped, or from another share's.
NoForgedKey == \A h \in Handles : shareKeys[h] \in Given(h) \cup {None}

\* A node below a share may be listed before the share's root, and is skipped
\* then: the next refresh has the key, which the session keeps, and imports it.
\* After two refreshes nothing readable is missing; of an exported folder, whose
\* key comes first, nothing is after one.  A wrong share key in the answer harms
\* no nodes but those of its own share (the tests at oldmega.c:2283-2287 and
\* 1697-1711 are all there is).
Complete ==
    at = None /\ rounds >= (IF exported THEN 1 ELSE 2) =>
        \A i \in DOMAIN f : Readable(f[i]) => f[i].h \in HandlesOf(nodes)
=============================================================================
