------------------------------ MODULE MCNanopb ------------------------------
EXTENDS Nanopb, TLC

F(tag, l, h, a, size) == Field(tag, l, h, a, size, 2, <<>>)
Inner == <<F(1, "string", "optional", "pointer", 0), F(2, "uvarint", "singular", "static", Word)>>
Sub(tag, h, a) == Field(tag, "submessage", h, a, 0, 2, Inner)
Table ==
    [ints     |-> <<F(1, "varint", "required", "static", Word), F(2, "varint", "optional", "static", Wide)>>,
     small    |-> <<F(1, "svarint", "singular", "static", 3), F(2, "uvarint", "required", "static", Word)>>,
     required |-> <<F(1, "uvarint", "required", "static", 3), F(2, "uvarint", "required", "static", 3),
                    F(3, "uvarint", "required", "static", 3)>>,
     arrays   |-> <<F(1, "varint", "repeated", "static", Word), F(2, "fixed32", "fixed", "static", Word)>>,
     heap     |-> <<F(1, "string", "repeated", "pointer", 0), F(2, "varint", "repeated", "pointer", Word)>>,
     texts    |-> <<F(1, "bytes", "required", "static", 2), F(2, "string", "singular", "static", 3),
                    F(3, "fixedbytes", "singular", "static", 2)>>,
     nested   |-> <<Sub(1, "optional", "static"), Sub(2, "repeated", "static")>>,
     nestedp  |-> <<Sub(1, "optional", "pointer"), Sub(2, "repeated", "pointer")>>,
     union    |-> <<Sub(1, "oneof", "pointer"), F(2, "string", "oneof", "pointer", 0)>>,
     unions   |-> <<Sub(1, "oneof", "static"), F(2, "svarint", "oneof", "static", Word)>>,
     mixed    |-> <<F(1, "svarint", "oneof", "static", Word), Sub(2, "oneof", "static"),
                    F(3, "string", "oneof", "pointer", 0)>>,
     extended |-> <<F(1, "fixed64", "singular", "static", Wide),
                    Field(2, "extension", "optional", "static", 0, 0,
                          <<F(2, "varint", "required", "static", Word), F(3, "string", "optional", "pointer", 0)>>)>>,
     called   |-> <<F(1, "string", "optional", "callback", 1), F(2, "string", "optional", "callback", 0)>>]
MCTypes == DOMAIN Table

Kind(rules, alloc, size, max, union) == [rules |-> rules, alloc |-> alloc, size |-> size, max |-> max, union |-> union]
MCMemberKinds ==
    {Kind("required", "static", 1, 0, 0), Kind("required", "static", 4, 0, 0), Kind("required", "pointer", 1, 0, 0),
     Kind("optional", "static", 4, 0, 0), Kind("optional", "pointer", 1, 0, 0), Kind("optional", "callback", 1, 0, 0),
     Kind("singular", "static", 2, 0, 0), Kind("repeated", "static", 2, 3, 0), Kind("repeated", "pointer", 4, 0, 0),
     Kind("fixed", "static", 1, 3, 0), Kind("oneof", "static", 4, 0, 1), Kind("oneof", "static", 1, 0, 1),
     Kind("oneof", "pointer", 1, 0, 1), Kind("oneof", "static", 2, 0, 2)}
MCFields(t) == IF t \in MCTypes THEN Table[t] ELSE <<>>

RECURSIVE Messages(_)
ItemsOf(fd) ==
    CASE fd.l \in {"varint", "svarint"} -> {0, 2 ^ (fd.size - 1) - 1, -(2 ^ (fd.size - 1))}
      [] fd.l = "uvarint" -> {0, 2 ^ fd.size - 1}
      [] fd.l \in {"fixed32", "fixed64"} -> {0, 2 ^ fd.size - 2}
      [] fd.l \in {"bytes", "string"} -> {<<>>, <<7, 9>>}
      [] fd.l = "fixedbytes" -> {<<0, 0>>, <<1, 15>>}
      [] fd.l = "submessage" -> Messages(fd.sub)
Entries(fd) ==
    IF fd.l = "submessage" THEN {<<<<>>, 3>>, <<<<<<7>>>>, 0>>}
    ELSE IF Packable(fd) THEN ItemsOf(fd) \ {0} ELSE ItemsOf(fd)
Up2(S) == {<<>>} \cup {<<x>> : x \in S} \cup {<<x, y>> : x \in S, y \in S}
Has(S, none) == {[has |-> FALSE, val |-> none]} \cup {[has |-> TRUE, val |-> x] : x \in S}
ValuesOf(fd) ==
    CASE fd.l = "extension" -> {<<[has |-> TRUE, val |-> x], y>> : x \in ItemsOf(fd.sub[1]),
                                 y \in Has({<<z>> : z \in ItemsOf(fd.sub[2])}, <<>>)}
      [] fd.a = "callback" -> IF fd.size = 0 THEN {<<>>} ELSE Up2({<<>>, <<1, 2>>})
      [] fd.a = "static" /\ fd.h \in {"required", "singular"} -> ItemsOf(fd)
      [] fd.a = "static" /\ fd.h \in {"optional", "oneof"} -> Has(ItemsOf(fd), ItemDefault(fd))
      [] fd.a = "static" /\ fd.h = "repeated" -> Up2(Entries(fd))
      [] fd.h = "fixed" -> {<<x, y>> : x \in ItemsOf(fd), y \in ItemsOf(fd)}
      [] fd.a = "pointer" /\ fd.h = "optional" -> {<<>>} \cup {<<x>> : x \in ItemsOf(fd)}
      [] fd.a = "pointer" /\ fd.h = "oneof" -> Has({<<x>> : x \in ItemsOf(fd)}, <<>>)
      [] fd.a = "pointer" /\ fd.h = "repeated" ->
           {[arr |-> s # <<>>, items |-> s] : s \in
              Up2(IF InHeap(fd) THEN {<<x>> : x \in Entries(fd)} ELSE Entries(fd))}
Messages(fields) ==
    IF fields = <<>> THEN {<<>>}
    ELSE {<<v>> \o m : v \in ValuesOf(Head(fields)), m \in Messages(Tail(fields))}
OneMember(t, m) ==
    Cardinality({i \in DOMAIN Table[t] : Table[t][i].h = "oneof" /\ m[i].has}) <= 1
MCSamples(t) == {m \in Messages(Table[t]) : OneMember(t, m)}
=============================================================================
