---- MODULE Directory ----
(***************************************************************************)
(* What the store promises its callers: one map from DNs to entries,       *)
(* changed by one atomic operation at a time.  Nothing of a deleted entry  *)
(* shows in an entry created later under its DN.                           *)
(***************************************************************************)
EXTENDS Naturals

CONSTANTS DNs, BaseDN, Parent, Classes, Attrs, Required, Passwords, NoPassword

VARIABLES
    dir,            \* the entries there are: a function from their DNs
    issued          \* the entryUUIDs handed out so far

Entries == [class : Classes, attrs : SUBSET Attrs, members : SUBSET DNs,
            password : Passwords \cup {NoPassword}, uuid : Nat]

Init == dir = << >> /\ issued = {}

\* A group lists entries that are there.
Resolves(class, members, present) == class = "groupOfNames" => members \subseteq present

\* A DN has one entry; a new one has a parent, unless it is the base, the attributes its
\* class requires, and an entryUUID nothing has had.
Create(d, e) ==
    /\ d \notin DOMAIN dir
    /\ d = BaseDN \/ Parent[d] \in DOMAIN dir
    /\ Required[e.class] \subseteq e.attrs
    /\ e.class = "groupOfNames" => e.members # {}
    /\ Resolves(e.class, e.members, DOMAIN dir \cup {d})
    /\ e.uuid \notin issued
    /\ dir' = [x \in DOMAIN dir \cup {d} |-> IF x = d THEN e ELSE dir[x]]
    /\ issued' = issued \cup {e.uuid}

\* Writing an entry replaces its attributes.  Its class and entryUUID stay, and so does its
\* password unless it is a user that is given another.
Update(d, attrs, members, password) ==
    /\ d \in DOMAIN dir
    /\ Resolves(dir[d].class, members, DOMAIN dir)
    /\ \/ password = dir[d].password
       \/ dir[d].class = "inetOrgPerson" /\ password \in Passwords
    /\ dir' = [dir EXCEPT ![d] = [class |-> dir[d].class, attrs |-> attrs,
                                  members |-> members, password |-> password,
                                  uuid |-> dir[d].uuid]]
    /\ UNCHANGED issued

Delete(d) ==
    /\ d \in DOMAIN dir
    /\ dir' = [x \in DOMAIN dir \ {d} |-> dir[x]]
    /\ UNCHANGED issued

\* One operation at one DN.  Its arguments are read off the entry it leaves there.
Next ==
    LET after == dir'
    IN  \E d \in DNs :
            \/ d \in DOMAIN after /\ Create(d, after[d])
            \/ /\ d \in DOMAIN after
               /\ Update(d, after[d].attrs, after[d].members, after[d].password)
            \/ Delete(d)

Spec == Init /\ [][Next]_<<dir, issued>>

====
