---- MODULE MCConnection ----
(***************************************************************************)
(* Clients with every operation, binds before and after StartTLS, a        *)
(* request longer than 127 bytes and one longer than the buffer, an answer *)
(* longer than 127 bytes, and message ids of one and two bytes.            *)
(***************************************************************************)
EXTENDS Connection, LdapClient

a == <<97>>
ab == <<97, 98>>
long == [i \in 1 .. 130 |-> 120]
MCStartTLSOID == <<83>>
MCWhoAmIOID == <<87>>

bind == [kind |-> "bind", name |-> a, password |-> a]
unbind == [kind |-> "unbind"]
extended(name) == [kind |-> "extended", name |-> name, value |-> << >>]
startTLS == extended(MCStartTLSOID)
whoAmI == extended(MCWhoAmIOID)
search(base, filter, attrs) ==
    [kind |-> "search", base |-> base, scope |-> 2, typesOnly |-> TRUE, filter |-> filter, attrs |-> attrs]
delete(name) == [kind |-> "delete", name |-> name]
attribute == [name |-> ab, values |-> <<a, ab>>]

assertion == [attr |-> a, value |-> ab]
pieces == <<[kind |-> "initial", value |-> a], [kind |-> "any", value |-> ab],
            [kind |-> "final", value |-> a]>>
filter ==
    [op |-> "and", of |-> <<
        [op |-> "or", of |-> <<[op |-> "equality", of |-> assertion],
                               [op |-> "present", attr |-> a]>>],
        [op |-> "not", of |-> <<[op |-> "approx", of |-> assertion]>>],
        [op |-> "substrings", attr |-> a, pieces |-> pieces],
        [op |-> "greaterOrEqual", of |-> assertion],
        [op |-> "lessOrEqual", of |-> assertion]>>]

MCScripts ==
    {<<bind, startTLS, whoAmI>>,
     <<startTLS, bind, whoAmI, unbind>>,
     <<bind, bind, startTLS, delete(a)>>,
     <<startTLS, startTLS, delete(long)>>,
     <<search(a, [op |-> "present", attr |-> ab], <<a, long>>)>>,
     <<search(a, filter, << >>), [kind |-> "modifyDN", name |-> a]>>,
     <<[kind |-> "add", name |-> a, attrs |-> <<attribute, attribute>>],
       [kind |-> "compare", name |-> a, ava |-> assertion]>>,
     <<[kind |-> "modify", name |-> a, changes |-> <<[op |-> 0, attr |-> attribute],
                                                    [op |-> 2, attr |-> attribute]>>],
       [extended(<<79>>) EXCEPT !.value = <<ab>>]>>}

MCMessageIds == <<127, 128, 300, 1>>

====
