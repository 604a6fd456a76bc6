------------------------------ MODULE MCManifest ------------------------------
(* Manifest for TLC: a manifest with one or two of everything, one that is *)
(* refused, and the tenants it is applied to.                              *)
EXTENDS Manifest, TLC

Keyed(k) == [key |-> k]

\* The child is declared before its parent.
Full ==
    [resources   |-> <<[key |-> "file", parent |-> "docs"], [key |-> "docs", parent |-> None]>>,
     scopes      |-> <<[key |-> "draft", on |-> "file"]>>,
     permissions |-> <<Keyed("read")>>,
     roles       |-> <<Keyed("editor")>>,
     grants      |-> <<[role |-> "editor", permission |-> "read", scopes |-> {"draft"}]>>,
     groups      |-> <<Keyed("staff")>>,
     users       |-> <<Keyed("alice")>>,
     accounts    |-> <<Keyed("robot")>>,
     bindings    |-> <<[subject |-> "staff", role |-> "editor", resource |-> "file",
                        inherit |-> TRUE],
                       [subject |-> "robot", role |-> "editor", resource |-> "docs",
                        inherit |-> FALSE]>>,
     members     |-> <<[user |-> "alice", group |-> "staff"]>>,
     policy      |-> TRUE,
     segments    |-> <<Keyed("lan")>>,
     profiles    |-> {"lan"},
     globals     |-> {},
     passworded  |-> {"alice"}]

\* Its resources are each other's parents.
Circular == [Full EXCEPT !.resources = <<[key |-> "file", parent |-> "docs"],
                                         [key |-> "docs", parent |-> "file"]>>]

\* Alice is not to be created.
Unsaid == [Full EXCEPT !.passworded = {}]

Object(is, name, under, id) ==
    [is |-> is, name |-> name, under |-> under, id |-> id, value |-> "stated",
     rest |-> "own", version |-> 1]

Empty == [objects |-> {Object("policy", None, Root, 1)}, grants |-> {}, altered |-> {},
          members |-> {}, bindings |-> {}, next |-> 2]

\* All but the file, its scope and the profile; another account, and a file that is
\* at the root.  Staff holds the role everywhere,
\* within some tenants.
Older ==
    [objects  |-> {[Object("policy", None, Root, 1) EXCEPT !.value = "drifted"],
                   Object("resource", "docs", Root, 2), Object("permission", "read", Root, 3),
                   [Object("role", "editor", Root, 4) EXCEPT !.value = "drifted"],
                   Object("group", "staff", Root, 5), Object("user", "alice", Root, 6),
                   Object("service-account", "other", Root, 7),
                   Object("service-account", "robot", Root, 8),
                   [Object("segment", "lan", Root, 9) EXCEPT !.value = "drifted"],
                   Object("resource", "file", Root, 10)},
     grants   |-> {<<4, 3>>}, altered |-> {}, members |-> {},
     bindings |-> {[role |-> 4, subject |-> 5, resource |-> Root, inherit |-> TRUE,
                    reach |-> "narrow"]},
     next     |-> 11]

\* Everything, but the scope and the profile drifted, the grant is a deny, staff holds
\* the role on docs, and robot does so below docs too.
Drifted ==
    [Older EXCEPT
        !.altered = {<<4, 3>>},
        !.objects = @ \cup {Object("resource", "file", 2, 11),
                            [Object("scope", "draft", 11, 12) EXCEPT !.value = "drifted"],
                            [Object("profile", "lan", 9, 13) EXCEPT !.value = "drifted"]},
        !.bindings = {[role |-> 4, subject |-> 5, resource |-> 2, inherit |-> TRUE,
                       reach |-> "narrow"],
                      [role |-> 4, subject |-> 8, resource |-> 2, inherit |-> TRUE,
                       reach |-> "all"]},
        !.next = 14]

\* Two accounts of one name, of which the manifest names none.
Twins == [Older EXCEPT !.objects = @ \cup {Object("service-account", "robot", Root, 11)},
                       !.next = 12]

MCManifests == {Full, Circular, Unsaid}
MCTenants   == {Empty, Older, Drifted, Twins}
===============================================================================
