---------------------------- MODULE MCMessages ----------------------------
(***************************************************************************)
(* Integers of 3 and 2 bits.  The contacts differ in key, address, exits   *)
(* and time so that parts of one can be mixed with parts of another.       *)
(***************************************************************************)
EXTENDS Messages

AI(port) == [rank |-> 1, dialect |-> 8, enc |-> 9, ip |-> 4, port |-> port]
XI == [address |-> 5, netmask |-> 6, pubkey |-> 7]

RC(key, addrs, exits, updated) ==
    rc_sign(key, [NoRC EXCEPT !.pubkey = key, !.enckey = 3, !.addrs = addrs, !.exits = exits,
                              !.last_updated = updated])

Plain == RC(1, AList(<<AI(1)>>), NoList, 0)
Exit == RC(2, AList(<<AI(1), AI(3)>>), AList(<<XI>>), 5)
Bare == RC(2, NoList, NoList, 0)
NoPort == RC(1, AList(<<AI(0)>>), NoList, 0)
Late == RC(1, AList(<<AI(1)>>), NoList, 7)

MCRCs == {Plain, Exit, Bare, NoPort, Late}

MCLinkMsgs ==
    {Relay("u", 1, 2, 3), Relay("d", 1, 2, 3), LRCM(<<1, 2>>), Discard(4), DHTImmediate(<<>>)}
    \cup {DHTImmediate(<<FindRouter(1, 1, t)>>) : t \in {0, 5, 7}}
    \cup {DHTImmediate(<<GotRouter(<<rc>>, 5), GotRouter(<<>>, 1)>>) : rc \in {Exit, Late}}

MCPathMsgs ==
    {PathConfirm(0, 5), PathConfirm(5, 7), PathConfirm(7, 0),
     PathLatency(0, 5), PathLatency(5, 0), PathLatency(7, 5)}

MCRecords == {LRCR(1, 2, 3, 4, 5)}

\* Nothing reads out: it is only there for RoundTrip.
MCView == <<remote, parser>>
=============================================================================
