--------------------------- MODULE MCDebugValues ---------------------------
(* Model checking of DebugValues: the types of a small program.            *)
EXTENDS DebugValues

U64      == [k |-> "u64"]
U8       == [k |-> "u8"]
Addr     == [k |-> "address"]
Signer   == [k |-> "signer"]
T        == [k |-> "param", i |-> 1]
VecOf(t) == [k |-> "vector", of |-> t]
Ref(t)   == [k |-> "ref", of |-> t]
Adt(n, args) == [k |-> "adt", name |-> n, args |-> args]

Point  == Adt("Point", <<>>)
Shape  == Adt("Shape", <<>>)
Text   == Adt("String", <<>>)
Grown  == Adt("Grown", <<>>)
Object(t) == Adt("Object", <<t>>)
Option(t) == Adt("Option", <<t>>)

OneVariant(fields) == [enum |-> FALSE, variants |-> <<[name |-> "", fields |-> fields]>>]
Variants(vs)       == [enum |-> TRUE, variants |-> vs]

MCDeclared == [
    Point  |-> OneVariant(<<<<"x", U64>>, <<"owner", Addr>>>>),
    String |-> OneVariant(<<<<"bytes", VecOf(U8)>>>>),
    Shape  |-> Variants(<<[name |-> "Dot", fields |-> <<>>],
                          [name |-> "Circle", fields |-> <<<<"center", Point>>, <<"r", U64>>>>]>>),
    Option |-> Variants(<<[name |-> "None", fields |-> <<>>],
                          [name |-> "Some", fields |-> <<<<"e", T>>>>]>>),
    Object |-> OneVariant(<<<<"inner", Addr>>>>),
    Grown  |-> Variants(<<[name |-> "V1", fields |-> <<<<"a", U64>>, <<"b", Text>>>>],
                          [name |-> "V2", fields |-> <<<<"a", U64>>>>]>>)]

(* The source is older than the code: Grown has got a field and a variant. *)
MCSource == [MCDeclared EXCEPT
    !.Grown = Variants(<<[name |-> "V1", fields |-> <<<<"a", U64>>>>]>>)]

MCLocalTypes ==
    {U64, Signer, [k |-> "function"], VecOf(U8), VecOf(U64), Text, Grown,
     Ref(Signer), Ref(U64), VecOf(VecOf(U64)), VecOf([k |-> "delayed"]),
     Point, Ref(Point), VecOf(Point), Ref(VecOf(Point)), Shape, VecOf(Shape), Ref(Shape),
     Option(U64), Option(Text), Option(Point), VecOf(Option(Addr)), VecOf(Grown),
     Object(Point), Object(VecOf(Addr)), Object(T), T, VecOf(T), Ref(T), Ref(VecOf(T)), Option(T), VecOf(Option(T))}
MCTypeArgs == {<<U64>>, <<Shape>>, <<Text>>}
=============================================================================
