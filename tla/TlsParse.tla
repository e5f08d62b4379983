------------------------------ MODULE TlsParse ------------------------------
(***************************************************************************)
(* internal/tlsparse: Parse, called by ApplyWire on the whole reassembled  *)
(* stream of one direction each time a capture has made it longer, folding *)
(* what it finds into the connection's Info.  The captures of the two      *)
(* directions are applied in any order and end anywhere.                   *)
(*                                                                         *)
(* A stream is a sequence of cells, one for each piece the cursor `reader' *)
(* takes at a time: it either gets a whole cell or stops.  The data of an  *)
(* extension are two cells, as handleExtension also looks at an incomplete *)
(* one: `lead' (enough for a version or a group) and `rest'.               *)
(***************************************************************************)
EXTENDS Integers, Sequences, FiniteSets, SequencesExt

CONSTANTS
  Splits  \* bound: where a Hello may be split over two records (0: nowhere)

ASSUME ParseAssumption == Splits \subseteq Nat

VARIABLES
  hello,  \* the handshake that is going on
  seen,   \* how many cells of each side's stream have been captured
  info    \* Conn.Info

vars == <<hello, seen, info>>

Sides == {"client", "server"}
-----------------------------------------------------------------------------
(* Handshakes.  Versions are 1 to 3 for TLS 1.0, 1.2 and 1.3; cipher suite *)
(* 13 stands for those that only TLS 1.3 has.                              *)

Cell(of, what, val) == [of |-> of, what |-> what, type |-> "", val |-> val]
Ext(of, type, val) ==
  [i \in 1..3 |-> [of |-> of, what |-> <<"ext", "lead", "rest">>[i], type |-> type, val |-> val]]

\* What a server answers: the version, the suite and the extensions in their order.
Servers ==
  {[version |-> 3, cs |-> 13, group |-> 29, exts |-> Ext("server", "key_share", 29)
                                                     \o Ext("server", "versions", 3)],
   [version |-> 3, cs |-> 13, group |-> 29, exts |-> Ext("server", "versions", 3)
                                                     \o Ext("server", "key_share", 29)],
   [version |-> 2, cs |-> 12, group |-> 0, exts |-> Ext("server", "alpn", "chosen")],
   [version |-> 1, cs |-> 10, group |-> 0, exts |-> <<>>]}

ClientHello ==
  <<Cell("client", "message", 1), Cell("client", "version", 2), Cell("client", "random", 0),
    Cell("client", "session_id", 0), Cell("client", "ciphers", 0), Cell("client", "compression", 0),
    Cell("client", "extensions", 0)>>
  \o Ext("client", "sni", "host") \o Ext("client", "sigs", "sigs") \o Ext("client", "alpn", "offered")

ServerHello(s) ==
  <<Cell("server", "message", 2), Cell("server", "version", IF s.version = 1 THEN 1 ELSE 2),
    Cell("server", "random", 0), Cell("server", "session_id", 0), Cell("server", "cipher", s.cs),
    Cell("server", "compression", 0), Cell("server", "extensions", 0)>> \o s.exts

Record(type, cells) == <<Cell("record", "header", type)>> \o cells
Handshake(cells) ==
  IF hello.split \in 1..(Len(cells) - 1)
  THEN Record(22, SubSeq(cells, 1, hello.split)) \o Record(22, SubSeq(cells, hello.split + 1, Len(cells)))
  ELSE Record(22, cells)

\* After ChangeCipherSpec the records are encrypted: a handshake record may hold anything.
Encrypted == Record(20, <<>>) \o Record(22, <<Cell("server", "message", 2), Cell("server", "version", 9)>>)

Stream(side) ==
  IF side = "client" THEN Handshake(ClientHello) \o Encrypted
  ELSE Handshake(ServerHello(hello.server))
       \o (IF hello.server.version = 3 THEN <<>>
           ELSE Record(22, <<Cell("cert", "message", 11), Cell("cert", "der", "subject")>>))
       \o Encrypted
-----------------------------------------------------------------------------
(* Parse.                                                                  *)

NoInfo == [HasClientHello |-> FALSE, HasServerHello |-> FALSE, HasCert |-> FALSE, SNI |-> "",
           ALPN |-> <<>>, OfferedSigs |-> <<>>, ClientVersion |-> 0, NegVersion |-> 0,
           CipherSuite |-> 0, Group |-> 0, CertSubject |-> ""]

\* Seeded fault: records of other types are skipped.
collectHandshake_skip(buf) == SelectSeq(buf, LAMBDA c : c.of # "record")

(* The payloads of the leading handshake records.                          *)
collectHandshake(buf) ==
  LET leading == {i \in DOMAIN buf : \A j \in 1..i : buf[j].of = "record" => buf[j].val = 22} IN
  SelectSeq(SubSeq(buf, 1, Cardinality(leading)), LAMBDA c : c.of # "record")

\* Seeded fault: the signature algorithms are added to those already there.
handleExtension_append(i, c) ==
  IF c.type = "sigs" /\ c.what = "rest" THEN [i EXCEPT !.OfferedSigs = Append(@, c.val)] ELSE i

(* An extension, as far as it has been captured.  Its data are handled     *)
(* once: the cell `rest' redoes what `lead' did.  A list keeps the names   *)
(* that are complete: here none before `rest', and all (one) with it.      *)
handleExtension(i, c) ==
  LET list == IF c.what = "rest" THEN <<c.val>> ELSE <<>> IN
  CASE c.type = "sni" /\ c.of = "client" /\ c.what = "rest" -> [i EXCEPT !.SNI = c.val]
    [] c.type = "sigs" /\ c.of = "client" -> [i EXCEPT !.OfferedSigs = list]
    [] c.type = "alpn" -> [i EXCEPT !.ALPN = list]
    [] c.type = "versions" /\ c.of = "server" /\ c.what = "lead" -> [i EXCEPT !.NegVersion = c.val]
    [] c.type = "key_share" /\ c.of = "server" /\ c.what = "lead" -> [i EXCEPT !.Group = c.val]
    [] OTHER -> i

\* Seeded fault: the ClientHello always sets the version.
parseClientHello_always(i, c) ==
  IF c.what = "version"
  THEN [i EXCEPT !.HasClientHello = TRUE, !.ClientVersion = c.val, !.NegVersion = c.val]
  ELSE handleExtension(i, c)

parseClientHello(i, c) ==
  IF c.what = "version"
  THEN [i EXCEPT !.HasClientHello = TRUE, !.ClientVersion = c.val,
                 !.NegVersion = IF @ = 0 THEN c.val ELSE @]
  ELSE handleExtension(i, c)

parseServerHello(i, c) ==
  CASE c.what = "version" -> [i EXCEPT !.HasServerHello = TRUE, !.NegVersion = c.val]
    [] c.what = "cipher" -> [i EXCEPT !.CipherSuite = c.val]
    [] OTHER -> handleExtension(i, c)

(* The certificate counts only as a whole.                                 *)
parseCertificate(i, c) ==
  IF c.what = "der" THEN [i EXCEPT !.HasCert = TRUE, !.CertSubject = c.val] ELSE i

(* One cell of the handshake stream.                                       *)
Step(i, c) ==
  CASE c.of = "client" -> parseClientHello(i, c)
    [] c.of = "server" -> parseServerHello(i, c)
    [] c.of = "cert" -> parseCertificate(i, c)

\* Seeded fault: no inference.
Infer_never(i, cells) == i

(* The end of parseServerHello: a TLS 1.3 suite implies the version, once  *)
(* the byte after the suite has been captured.                             *)
Infer(i, cells) ==
  IF /\ \E k \in DOMAIN cells : cells[k].of = "server" /\ cells[k].what = "compression"
     /\ i.NegVersion < 3 /\ i.CipherSuite = 13
  THEN [i EXCEPT !.NegVersion = 3] ELSE i

Parse(buf, i) ==
  LET cells == collectHandshake(buf) IN Infer(FoldLeft(Step, i, cells), cells)
-----------------------------------------------------------------------------
Captured(side, n) == SubSeq(Stream(side), 1, n)

Init ==
  /\ hello \in [server : Servers, split : Splits]
  /\ seen = [side \in Sides |-> 0] /\ info = NoInfo

(* ApplyWire: the buffer of a side grows, and is parsed from its start.    *)
Capture(side, n) ==
  /\ n > seen[side]
  /\ seen' = [seen EXCEPT ![side] = n]
  /\ info' = Parse(Captured(side, n), info)
  /\ UNCHANGED hello

Next == \E side \in Sides : \E n \in 1..Len(Stream(side)) : Capture(side, n)

Spec == Init /\ [][Next]_vars
-----------------------------------------------------------------------------
(* Properties.                                                             *)

\* Has the cell of the side's own Hello been captured?
Has(side, what) ==
  \E i \in 1..seen[side] : Stream(side)[i].of = side /\ Stream(side)[i].what = what

(* Whatever has been captured of either side, in whatever order and cut    *)
(* wherever: the negotiated version and suite are the server's from the    *)
(* byte after the suite on, though TLS 1.3 hides its version in an         *)
(* extension that may be out of reach; before that the version is 0, the   *)
(* server's, or the TLS 1.2 that both Hellos claim in its place; suite,    *)
(* group and host name are empty or right; and nothing is read from        *)
(* encrypted records.  (ALPN is left out: see ReparseSettled.)             *)
InfoSound ==
  LET s == hello.server IN
  /\ Has("server", "compression") => info.NegVersion = s.version /\ info.CipherSuite = s.cs
  /\ info.NegVersion \in {0, 2, s.version}
  /\ info.CipherSuite \in {0, s.cs} /\ info.Group \in {0, s.group}
  /\ info.SNI \in {"", "host"}
  /\ info.HasCert => s.version # 3

(* To parse a buffer again, with whatever has been learnt since from the   *)
(* other side's, adds nothing and takes nothing away but ALPN.  (ALPN does *)
(* change: handleExtension sets it for either side, so that parsing the    *)
(* client's buffer again puts the client's offer over the server's choice, *)
(* although design-doc.md calls Info idempotent.)                          *)
ReparseSettled ==
  \A side \in Sides :
    [Parse(Captured(side, seen[side]), info) EXCEPT !.ALPN = info.ALPN] = info

(* "Safe to call repeatedly on a growing buffer": what one capture has     *)
(* told of the server's version, suite and group, the host name or the     *)
(* certificate, no later one of either side takes back.  (ALPN is taken    *)
(* back.)                                                                  *)
NothingTakenBack ==
  [][/\ Has("server", "compression") => info'.NegVersion = info.NegVersion
     /\ info.CipherSuite # 0 => info'.CipherSuite = info.CipherSuite
     /\ info.Group # 0 => info'.Group = info.Group
     /\ info.SNI # "" => info'.SNI = info.SNI
     /\ info.HasCert => info'.HasCert]_vars
=============================================================================
