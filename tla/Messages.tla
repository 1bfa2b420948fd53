------------------------------ MODULE Messages ------------------------------
(***************************************************************************)
(* How the messages of the links, of the paths and of the DHT, and router  *)
(* contacts, are written as bencoded dictionaries and read back            *)
(* (udap/bencode.c, udap/link_message.cpp, routing/message_parser.cpp and  *)
(* the BEncode and DecodeKey of every message).                            *)
(*                                                                         *)
(* A buffer is a dictionary, a list, a string or an integer.  A key stands *)
(* for its first letter, a string for what it holds and whether it has the *)
(* size that is asked for; 64 and 16 bit integers have W and P bits.  One  *)
(* parser serves every session of the router.  A LIM is decoded right into *)
(* the router contact of the session, which is not cleared before.  A      *)
(* LRACK is never written; the proof of work of a commit record neither.   *)
(*                                                                         *)
(* Operators named Mut... are wrong on purpose: forms that a plausible bug *)
(* would give the definition after them.  No specification uses them.      *)
(***************************************************************************)
EXTENDS Integers, Sequences, SequencesExt

CONSTANTS
    W,              \* bits of a uint64_t
    P,              \* bits of a uint16_t
    RCs,            \* router contacts, signed by the routers they are of
    LinkMsgs,       \* other link messages
    PathMsgs,       \* routing messages, sent over a path
    Records,        \* commit records
    MaxAddrs        \* addresses that fit into MAX_RC_SIZE

ASSUME MessagesAssumption == W \in Nat \ {0} /\ P \in 1..W /\ MaxAddrs \in Nat

VARIABLES
    remote,     \* the router contact of the session
    parser,     \* InboundMessageParser: firstkey, and what message it still holds
    out         \* what came last: the message that was written, the result and
                \* the message that was read

vars == <<remote, parser, out>>

-----------------------------------------------------------------------------
(* Bencode *)

Str(b) == [t |-> "str", s |-> b, fits |-> TRUE]
Char(c) == [t |-> "char", c |-> c]
Item(k, x) == [key |-> k, val |-> x]
Dict(items) == [t |-> "dict", items |-> items, end |-> TRUE]
List(elems) == [t |-> "list", elems |-> elems]

\* %ld: a number with the highest bit set is written as a negative one.
write_uint64(u) == [t |-> "int", n |-> IF u >= 2^(W - 1) THEN u - 2^W ELSE u]

write_uint16(u) == [t |-> "int", n |-> u]

Version == Item("v", write_uint64(0))

OK(obj) == [ok |-> TRUE, obj |-> obj]
Fail(obj) == [ok |-> FALSE, obj |-> obj]

\* atol, and -1 is taken for an error; the result has been stored by then.
read_integer(m, f, x) ==
    IF x.t = "int"
    THEN LET u == x.n % 2^W IN [ok |-> u # 2^W - 1, obj |-> [m EXCEPT ![f] = u]]
    ELSE Fail(m)

\* A string of a given size.
read_string(m, f, x) == IF x.t = "str" /\ x.fits THEN OK([m EXCEPT ![f] = x.s]) ELSE Fail(m)

\* Encrypted::BDecode: any size but zero.
read_encrypted(m, f, x) == IF x.t = "str" THEN OK([m EXCEPT ![f] = x.s]) ELSE Fail(m)

MaybeReadVersion(m, x) == IF x.t = "int" /\ x.n = 0 THEN OK(m) ELSE Fail(m)

\* What was read is put into the field f.
Into(m, f, r) == [ok |-> r.ok, obj |-> [m EXCEPT ![f] = r.obj]]

\* One key after the other, until one is refused.
read_dict_item(before, item, Key(_, _, _)) ==
    IF before.ok THEN Key(before.obj, item.key, item.val) ELSE before

read_dict(x, obj, Key(_, _, _)) ==
    IF x.t # "dict" THEN Fail(obj)
    ELSE LET st[i \in 0..Len(x.items)] ==
               IF i = 0 THEN OK(obj) ELSE read_dict_item(st[i - 1], x.items[i], Key)
         IN [st[Len(x.items)] EXCEPT !.ok = @ /\ x.end]

\* The items are put at the end of what the list has, a bad one as well.
read_list_item(before, r) ==
    IF before.ok THEN [ok |-> r.ok, obj |-> Append(before.obj, r.obj)] ELSE before

read_list(x, list, Decode(_)) ==
    IF x.t # "list" THEN Fail(list)
    ELSE LET st[i \in 0..Len(x.elems)] ==
               IF i = 0 THEN OK(list) ELSE read_list_item(st[i - 1], Decode(x.elems[i]))
         IN st[Len(x.elems)]

WriteList(list, Encode(_)) == List([i \in DOMAIN list |-> Encode(list[i])])

-----------------------------------------------------------------------------
(* Addresses and exits *)

\* inet_ntop and inet_pton: a text is told from the address it stands for.
Ntop(ip) == Str(1000 + ip)

Pton(m, f, x) ==
    IF x.t = "str" /\ x.s >= 1000 THEN OK([m EXCEPT ![f] = x.s - 1000]) ELSE Fail(m)

NoAI == [rank |-> 0, dialect |-> 0, enc |-> 0, ip |-> 0, port |-> 0]

ai_bencode(ai) ==
    Dict(<<Item("c", write_uint16(ai.rank)), Item("d", Str(ai.dialect)), Item("e", Str(ai.enc)),
           Item("i", Ntop(ai.ip)), Item("p", write_uint16(ai.port)), Version>>)

\* 65536 is let through and becomes 0, which is refused itself.
ReadPort(ai, f, x) ==
    IF x.t = "int" /\ x.n % 2^W \in 1..2^P THEN OK([ai EXCEPT ![f] = x.n % 2^P]) ELSE Fail(ai)

ai_decode_key(ai, key, val) ==
    CASE key = "c" -> ReadPort(ai, "rank", val)
      [] key = "d" -> read_string(ai, "dialect", val)
      [] key = "e" -> read_string(ai, "enc", val)
      [] key = "i" -> Pton(ai, "ip", val)
      [] key = "p" -> ReadPort(ai, "port", val)
      [] key = "v" -> MaybeReadVersion(ai, val)
      [] OTHER -> Fail(ai)

ai_bdecode(x) == read_dict(x, NoAI, ai_decode_key)

\* An address goes into the list when it was read.
OnlyRead(r) == IF r.ok \/ r.obj = <<>> THEN r ELSE Fail(Front(r.obj))

ai_list_bdecode(x) == OnlyRead(read_list(x, <<>>, ai_bdecode))

ai_list_bencode(list) == WriteList(list, ai_bencode)

NoXI == [address |-> 0, netmask |-> 0, pubkey |-> 0]

xi_bencode(xi) ==
    Dict(<<Item("a", Ntop(xi.address)), Item("b", Ntop(xi.netmask)), Item("k", Str(xi.pubkey)), Version>>)

xi_decode_dict(xi, key, val) ==
    CASE key = "a" -> Pton(xi, "address", val)
      [] key = "b" -> Pton(xi, "netmask", val)
      [] key = "k" -> read_string(xi, "pubkey", val)
      [] key = "v" -> MaybeReadVersion(xi, val)
      [] OTHER -> Fail(xi)

xi_bdecode(x) == read_dict(x, NoXI, xi_decode_dict)

xi_list_bdecode(x) == read_list(x, <<>>, xi_bdecode)

xi_list_bencode(list) == WriteList(list, xi_bencode)

-----------------------------------------------------------------------------
(* Router contacts *)

NoList == [here |-> FALSE, list |-> <<>>]
AList(l) == [here |-> TRUE, list |-> l]

IntoList(rc, f, r) == [ok |-> r.ok, obj |-> [rc EXCEPT ![f] = AList(r.obj)]]

NoSig == [by |-> 0, of |-> <<>>]

NoRC == [addrs |-> NoList, pubkey |-> 0, enckey |-> 0, last_updated |-> 0, exits |-> NoList,
         signature |-> NoSig]

MutNoExits(rc) ==
    Dict((IF rc.addrs.here THEN <<Item("a", ai_list_bencode(rc.addrs.list))>> ELSE <<>>)
         \o <<Item("k", Str(rc.pubkey)), Item("p", Str(rc.enckey)),
              Item("u", write_uint64(rc.last_updated)), Version>>
         \o <<Item("z", [t |-> "sig", sig |-> rc.signature])>>)

\* The lists are written only if they are there, in the order of the keys.
rc_bencode(rc) ==
    Dict((IF rc.addrs.here THEN <<Item("a", ai_list_bencode(rc.addrs.list))>> ELSE <<>>)
         \o <<Item("k", Str(rc.pubkey)), Item("p", Str(rc.enckey)),
              Item("u", write_uint64(rc.last_updated)), Version>>
         \o (IF rc.exits.here THEN <<Item("x", xi_list_bencode(rc.exits.list))>> ELSE <<>>)
         \o <<Item("z", [t |-> "sig", sig |-> rc.signature])>>)

rc_decode_dict(rc, key, val) ==
    CASE key = "a" -> IntoList(rc, "addrs", ai_list_bdecode(val))
      [] key = "k" -> read_string(rc, "pubkey", val)
      [] key = "p" -> read_string(rc, "enckey", val)
      [] key = "u" -> read_integer(rc, "last_updated", val)
      [] key = "v" -> MaybeReadVersion(rc, val)
      [] key = "x" -> IntoList(rc, "exits", xi_list_bdecode(val))
      [] key = "z" -> IF val.t = "sig" THEN OK([rc EXCEPT !.signature = val.sig]) ELSE Fail(rc)
      [] OTHER -> Fail(rc)

\* The contact is not cleared: what the dictionary leaves out stays.
rc_bdecode(rc, x) == read_dict(x, rc, rc_decode_dict)

\* What is signed: the encoding with an empty signature, if it fits.
Signed(rc) == rc_bencode([rc EXCEPT !.signature = NoSig]).items

Fits(rc) == Len(rc.addrs.list) <= MaxAddrs

rc_sign(key, rc) ==
    [rc EXCEPT !.signature = IF Fits(rc) THEN [by |-> key, of |-> Signed(rc)] ELSE NoSig]

rc_verify_sig(rc) == Fits(rc) /\ rc.signature = [by |-> rc.pubkey, of |-> Signed(rc)]

-----------------------------------------------------------------------------
(* DHT messages *)

FindRouter(K, iterative, txid) == [k |-> "R", K |-> K, iterative |-> iterative, txid |-> txid, version |-> 0]

FindRouter_BEncode(m) ==
    Dict(<<Item("A", Char("R")), Item("I", write_uint64(m.iterative)), Item("K", Str(m.K)),
           Item("T", write_uint64(m.txid)), Item("V", write_uint64(m.version))>>)

ReadBool(m, r) ==
    IF r.ok THEN OK([m EXCEPT !.iterative = IF r.obj.iterative # 0 THEN 1 ELSE 0]) ELSE Fail(m)

\* The version is stored and not compared.
FindRouter_DecodeKey(m, key, val) ==
    CASE key = "I" -> ReadBool(m, read_integer(m, "iterative", val))
      [] key = "K" -> read_string(m, "K", val)
      [] key = "T" -> read_integer(m, "txid", val)
      [] key = "V" -> read_integer(m, "version", val)
      [] OTHER -> Fail(m)

GotRouter(R, txid) == [k |-> "S", R |-> R, txid |-> txid]

GotRouter_BEncode(m) ==
    Dict(<<Item("A", Char("S")), Item("R", WriteList(m.R, rc_bencode)), Item("T", write_uint64(m.txid)),
           Item("V", write_uint64(0))>>)

NewRC(x) == rc_bdecode(NoRC, x)

GotRouter_DecodeKey(m, key, val) ==
    CASE key = "R" -> Into(m, "R", read_list(val, m.R, NewRC))
      [] key = "T" -> read_integer(m, "txid", val)
      [] key = "V" -> MaybeReadVersion(m, val)
      [] OTHER -> Fail(m)

NoMsg == [k |-> "none"]

\* MessageDecoder::on_key: the type comes first.
MessageDecoder(m, key, val) ==
    CASE m.k = "R" -> FindRouter_DecodeKey(m, key, val)
      [] m.k = "S" -> GotRouter_DecodeKey(m, key, val)
      [] key = "A" /\ val = Char("R") -> OK(FindRouter(0, 0, 0))
      [] key = "A" /\ val = Char("S") -> OK(GotRouter(<<>>, 0))
      [] OTHER -> Fail(m)

\* A dictionary without a type holds no message.
IfTyped(r) == [r EXCEPT !.ok = @ /\ r.obj # NoMsg]

DecodeMesssage(x) == IfTyped(read_dict(x, NoMsg, MessageDecoder))

DecodeMesssageList(x, list) == read_list(x, list, DecodeMesssage)

DHT_BEncode(m) == IF m.k = "R" THEN FindRouter_BEncode(m) ELSE GotRouter_BEncode(m)

-----------------------------------------------------------------------------
(* Link messages *)

LIM(rc) == [k |-> "i", rc |-> rc]
Relay(k, pathid, X, Y) == [k |-> k, pathid |-> pathid, X |-> X, Y |-> Y]
LRCM(frames) == [k |-> "c", frames |-> frames]
DHTImmediate(msgs) == [k |-> "m", msgs |-> msgs]
Discard(pad) == [k |-> "z", pad |-> pad]

LIM_BEncode(m) == Dict(<<Item("a", Char("i")), Item("r", rc_bencode(m.rc)), Version>>)

Relay_BEncode(m) ==
    Dict(<<Item("a", Char(m.k)), Item("p", Str(m.pathid)), Version, Item("x", Str(m.X)), Item("y", Str(m.Y))>>)

LRCM_BEncode(m) == Dict(<<Item("a", Char("c")), Item("c", WriteList(m.frames, Str)), Version>>)

DHTImmediate_BEncode(m) == Dict(<<Item("a", Char("m")), Item("m", WriteList(m.msgs, DHT_BEncode)), Version>>)

Discard_BEncode(m) == Dict(<<Item("a", Char("z")), Version, Item("z", Str(m.pad))>>)

Link_BEncode(m) ==
    CASE m.k = "i" -> LIM_BEncode(m)
      [] m.k \in {"u", "d"} -> Relay_BEncode(m)
      [] m.k = "c" -> LRCM_BEncode(m)
      [] m.k = "m" -> DHTImmediate_BEncode(m)
      [] m.k = "z" -> Discard_BEncode(m)

LIM_DecodeKey(m, key, val) ==
    CASE key = "r" -> Into(m, "rc", rc_bdecode(m.rc, val))
      [] key = "v" -> MaybeReadVersion(m, val)
      [] OTHER -> Fail(m)

Relay_DecodeKey(m, key, val) ==
    CASE key = "p" -> read_string(m, "pathid", val)
      [] key = "v" -> MaybeReadVersion(m, val)
      [] key = "x" -> read_encrypted(m, "X", val)
      [] key = "y" -> read_string(m, "Y", val)
      [] OTHER -> Fail(m)

NewFrame(x) == IF x.t = "str" THEN OK(x.s) ELSE Fail(0)

LRCM_DecodeKey(m, key, val) ==
    CASE key = "c" -> Into(m, "frames", read_list(val, m.frames, NewFrame))
      [] key = "v" -> MaybeReadVersion(m, val)
      [] OTHER -> Fail(m)

DHTImmediate_DecodeKey(m, key, val) ==
    CASE key = "m" -> Into(m, "msgs", DecodeMesssageList(val, m.msgs))
      [] key = "v" -> MaybeReadVersion(m, val)
      [] OTHER -> Fail(m)

\* Any size up to MAX_DISCARD_SIZE.
Discard_DecodeKey(m, key, val) ==
    CASE key = "v" -> MaybeReadVersion(m, val)
      [] key = "z" -> read_encrypted(m, "pad", val)
      [] OTHER -> Fail(m)

\* LR_AckMessage::DecodeKey refuses every key.
Ack_DecodeKey(m) == Fail(m)

DecodeKey(m, key, val) ==
    CASE m.k = "i" -> LIM_DecodeKey(m, key, val)
      [] m.k \in {"u", "d"} -> Relay_DecodeKey(m, key, val)
      [] m.k = "c" -> LRCM_DecodeKey(m, key, val)
      [] m.k = "m" -> DHTImmediate_DecodeKey(m, key, val)
      [] m.k = "z" -> Discard_DecodeKey(m, key, val)
      [] m.k = "a" -> Ack_DecodeKey(m)

\* The message a type stands for, empty; a LIM works on the session's contact.
NewMessage(c, rc) ==
    CASE c = "i" -> LIM(rc)
      [] c \in {"u", "d"} -> Relay(c, 0, 0, 0)
      [] c = "c" -> LRCM(<<>>)
      [] c = "m" -> DHTImmediate(<<>>)
      [] c = "z" -> Discard(0)
      [] c = "a" -> [k |-> "a"]
      [] OTHER -> NoMsg

\* InboundMessageParser::OnKey: the type first, then the keys of the message.
OnKey(p, key, val) ==
    IF p.firstkey
    THEN IF key = "a" /\ val.t = "char" /\ NewMessage(val.c, p.rc) # NoMsg
         THEN OK([p EXCEPT !.firstkey = FALSE, !.msg = NewMessage(val.c, p.rc)])
         ELSE Fail(p)
    ELSE Into(p, "msg", DecodeKey(p.msg, key, val))

-----------------------------------------------------------------------------
(* Routing messages and commit records *)

PathConfirm(L, S) == [k |-> "P", L |-> L, S |-> S]
PathLatency(L, T) == [k |-> "L", L |-> L, T |-> T]

PathConfirm_BEncode(m) ==
    Dict(<<Item("A", Char("P")), Item("L", write_uint64(m.L)), Item("S", write_uint64(m.S))>>)

\* A zero is left out.
PathLatency_BEncode(m) ==
    Dict(<<Item("A", Char("L"))>>
         \o (IF m.L # 0 THEN <<Item("L", write_uint64(m.L))>> ELSE <<>>)
         \o (IF m.T # 0 THEN <<Item("T", write_uint64(m.T))>> ELSE <<>>))

PathConfirm_DecodeKey(m, key, val) ==
    CASE key = "L" -> read_integer(m, "L", val)
      [] key = "S" -> read_integer(m, "S", val)
      [] OTHER -> Fail(m)

PathLatency_DecodeKey(m, key, val) ==
    CASE key = "L" -> read_integer(m, "L", val)
      [] key = "T" -> read_integer(m, "T", val)
      [] OTHER -> Fail(m)

RoutingOnKey(m, key, val) ==
    CASE m.k = "P" -> PathConfirm_DecodeKey(m, key, val)
      [] m.k = "L" -> PathLatency_DecodeKey(m, key, val)
      [] key = "A" /\ val = Char("P") -> OK(PathConfirm(0, 0))
      [] key = "A" /\ val = Char("L") -> OK(PathLatency(0, 0))
      [] OTHER -> Fail(m)

LRCR(c, i, n, r, t) == [k |-> "r", commkey |-> c, nextHop |-> i, tunnelNonce |-> n, rxid |-> r, txid |-> t]

LRCR_BEncode(m) ==
    Dict(<<Item("c", Str(m.commkey)), Item("i", Str(m.nextHop)), Item("n", Str(m.tunnelNonce)),
           Item("r", Str(m.rxid)), Item("t", Str(m.txid)), Version>>)

\* PoW::BDecode refuses everything, and with it the key w.
LRCR_OnKey(m, key, val) ==
    CASE key = "c" -> read_string(m, "commkey", val)
      [] key = "i" -> read_string(m, "nextHop", val)
      [] key = "n" -> read_string(m, "tunnelNonce", val)
      [] key = "r" -> read_string(m, "rxid", val)
      [] key = "t" -> read_string(m, "txid", val)
      [] key = "v" -> MaybeReadVersion(m, val)
      [] OTHER -> Fail(m)

-----------------------------------------------------------------------------
(* What arrives: what a peer has written, or something close to it *)

Without(x, i) == [x EXCEPT !.items = RemoveAt(@, i)]
Twice(x, i) == [x EXCEPT !.items = Append(@, x.items[i])]
\* A reader looks one byte past the end of what it got; if an e happens to be
\* there then it reads what was written.
Truncated(x) == [x EXCEPT !.end = FALSE]
\* A type that exists and that no message is written with.
Retyped(x) == [x EXCEPT !.items[1].val = Char("a")]
Unknown(x) == [x EXCEPT !.items = Append(@, Item("?", Str(0)))]
Versioned(x, i) == [x EXCEPT !.items[i] = Item(x.items[i].key, write_uint64(1))]
Resized(x, i) == [x EXCEPT !.items[i].val.fits = FALSE]

Altered(x) ==
    {Truncated(x), Retyped(x), Unknown(x)}
    \cup {Without(x, i) : i \in DOMAIN x.items}
    \cup {Twice(x, i) : i \in DOMAIN x.items}
    \cup {Versioned(x, i) : i \in {j \in DOMAIN x.items : x.items[j].key \in {"v", "V"}}}
    \cup {Resized(x, i) : i \in {j \in DOMAIN x.items : x.items[j].val.t = "str"}}

\* A LIM around a contact that is altered itself.
AlteredRC(rc) ==
    {Dict(<<Item("a", Char("i")), Item("r", x), Version>>) : x \in Altered(rc_bencode(rc))}

Init ==
    /\ remote = NoRC
    /\ parser = [firstkey |-> FALSE, held |-> "none"]
    /\ out = [sent |-> NoMsg, ok |-> FALSE, read |-> NoMsg]

Outcome(sent, ok, read) == out' = [sent |-> sent, ok |-> ok, read |-> IF ok THEN read ELSE NoMsg]

MutKeepsFirstKey(x) == [firstkey |-> parser.held = "none", msg |-> NewMessage(parser.held, remote), rc |-> remote]

\* ProcessFrom begins: the message of before, if it was refused, is forgotten.
StartMessage(x) == [firstkey |-> TRUE, msg |-> NewMessage(parser.held, remote), rc |-> remote]

\* InboundMessageParser::ProcessFrom with MessageDone: at the end of the
\* dictionary the message is handled and deleted.
MessageDone(sent, p, done) ==
    /\ remote' = IF ~p.firstkey /\ p.msg.k = "i" THEN p.msg.rc ELSE remote
    /\ parser' = [firstkey |-> p.firstkey, held |-> IF done THEN "none" ELSE p.msg.k]
    /\ Outcome(sent, done, p.msg)

ProcessFrom(sent, x) ==
    \E r \in {read_dict(x, StartMessage(x), OnKey)} :
      MessageDone(sent, r.obj, r.ok /\ ~r.obj.firstkey)

\* routing::InboundMessageParser::ParseMessageBuffer
ParseMessageBuffer(sent, x) ==
    \E r \in {IfTyped(read_dict(x, NoMsg, RoutingOnKey))} :
      Outcome(sent, r.ok, r.obj) /\ UNCHANGED <<remote, parser>>

\* LR_CommitRecord::BDecode
DecodeRecord(sent, x) ==
    \E r \in {read_dict(x, LRCR(0, 0, 0, 0, 0), LRCR_OnKey)} :
      Outcome(sent, r.ok, r.obj) /\ UNCHANGED <<remote, parser>>

Routing_BEncode(m) == IF m.k = "P" THEN PathConfirm_BEncode(m) ELSE PathLatency_BEncode(m)

RecvLIM ==
    \E rc \in RCs :
      \/ ProcessFrom(LIM(rc), LIM_BEncode(LIM(rc)))
      \/ \E x \in Altered(LIM_BEncode(LIM(rc))) \cup AlteredRC(rc) : ProcessFrom(NoMsg, x)

RecvLink ==
    \E m \in LinkMsgs :
      \/ ProcessFrom(m, Link_BEncode(m))
      \/ \E x \in Altered(Link_BEncode(m)) : ProcessFrom(NoMsg, x)

RecvRouting ==
    \E m \in PathMsgs :
      \/ ParseMessageBuffer(m, Routing_BEncode(m))
      \/ \E x \in Altered(Routing_BEncode(m)) : ParseMessageBuffer(NoMsg, x)

RecvRecord ==
    \E m \in Records :
      \/ DecodeRecord(m, LRCR_BEncode(m))
      \/ \E x \in Altered(LRCR_BEncode(m)) : DecodeRecord(NoMsg, x)

Next == RecvLIM \/ RecvLink \/ RecvRouting \/ RecvRecord

Spec == Init /\ [][Next]_vars

-----------------------------------------------------------------------------
(* Properties *)

\* What the encoding has no form for: the number with all bits set and the
\* port and the rank 0.
Ones == 2^W - 1

RCHasForm(rc) ==
    /\ rc.last_updated # Ones
    /\ \A i \in DOMAIN rc.addrs.list : rc.addrs.list[i].rank # 0 /\ rc.addrs.list[i].port # 0

DhtHasForm(d) == d.txid # Ones /\ (d.k = "S" => \A i \in DOMAIN d.R : RCHasForm(d.R[i]))

HasForm(m) ==
    CASE m.k = "i" -> RCHasForm(m.rc)
      [] m.k = "m" -> \A i \in DOMAIN m.msgs : DhtHasForm(m.msgs[i])
      [] m.k = "P" -> m.L # Ones /\ m.S # Ones
      [] m.k = "L" -> m.L # Ones /\ m.T # Ones
      [] OTHER -> TRUE

\* Lists of the contact decoded before that the new one does not have.
Lingers(old, new) == (old.addrs.here /\ ~new.addrs.here) \/ (old.exits.here /\ ~new.exits.here)

\* A message is read as it was written, whatever was refused before it, if and
\* only if all its numbers have a form; a contact verifies again where it
\* arrives, unless the session had one with lists that the new one lacks.
RoundTrip ==
    [][out'.sent # NoMsg =>
         IF out'.sent.k = "i" /\ Lingers(remote, out'.sent.rc)
         THEN ~rc_verify_sig(remote')
         ELSE /\ out'.ok <=> HasForm(out'.sent)
              /\ out'.ok => /\ out'.read = out'.sent
                            /\ out'.sent.k = "i" => remote' = out'.sent.rc /\ rc_verify_sig(remote')]_vars

\* A LIM may be refused half way and the next one is decoded over what it left:
\* if the session's contact verifies then it is one that its router signed.
VerifiedIsSigned == rc_verify_sig(remote) => remote \in RCs
=============================================================================
