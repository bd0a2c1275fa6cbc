---------------------------- MODULE MCSummaries -----------------------------
(* A conversation whose round is longer than a prompt, and one with an     *)
(* answer that fits into no prompt; they arrive one after the other or     *)
(* mixed.  The first may turn out to be internal after a failure of the    *)
(* model, or a process is killed and a user asks for a summary meanwhile.  *)
EXTENDS Summaries

CONSTANTS c1, c2

MCConvs == {c1, c2}

Message(id, conv, kind, body) == [id |-> id, conv |-> conv, kind |-> kind, body |-> body]

MCMessages ==
    {Message(1, c1, "user", "a"), Message(2, c1, "tool", "a"), Message(3, c1, "final", "a"),
     Message(4, c2, "user", "a"), Message(5, c2, "final", "huge")}

Msg(id) == CHOOSE m \in MCMessages : m.id = id

Order(ids) == [i \in DOMAIN ids |-> Msg(ids[i])]

MCArrivals == {Order(<<1, 2, 3, 4, 5>>), Order(<<4, 1, 5, 2, 3>>)}

MCMishaps == {{"kill", "user"}, {"fail", "exclude"}}
=============================================================================
