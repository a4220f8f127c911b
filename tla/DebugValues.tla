---------------------------- MODULE DebugValues ----------------------------
(***************************************************************************)
(* How a Move value becomes what the client sees: serialize_local_value    *)
(* and what it calls (debug_value.rs), guided by the local's type and by   *)
(* what the resolver knows of structs and enums (resolver.rs), and the     *)
(* conversion of a transaction's arguments (replay.rs).                    *)
(*                                                                         *)
(* The state is one local of the function at hand: its type as written in  *)
(* the code, with the function's type parameters in it, and the value the  *)
(* VM keeps in it.  The VM's values are external: Value's variants, with   *)
(* one kind for all the integers and one for all the vectors of scalars.   *)
(***************************************************************************)
EXTENDS Integers, Sequences, SequencesExt, TLC

CONSTANTS
    Numbers, Bytes, Addresses,  \* scalars of the instance; a byte below 128 is text
    MaxLen,                     \* longest vector
    Declared,                   \* ADT name -> the running code's layout
    Source,                     \* ADT name -> the layout in the source map
    StringName,                 \* 0x1::string::String, one of them
    LocalTypes,                 \* types of the local
    TypeArgs                    \* the function's type arguments

(***************************************************************************)
(* A type is a record: k is "u64", "u8", "address", "signer", "function",  *)
(* "delayed", "vector" or "ref" (with of), "adt" (with name and args) or   *)
(* "param" (with i).  A layout is a record: enum, and a sequence of        *)
(* variants, each with its name and its fields <<name, type>>; a struct    *)
(* has one.                                                                *)
(***************************************************************************)
Adts   == DOMAIN Declared
NoType == [k |-> "none"]

VARIABLES
    ty,         \* the local's type
    ty_args,    \* what the type parameters stand for, a sequence of types
    local,      \* the VM's value in the local
    named,      \* ADTs the source map knows
    loaded      \* ADTs of which load_struct_type gives the type

vars == <<ty, ty_args, local, named, loaded>>

-----------------------------------------------------------------------------
(* The VM (external): the values of a type.                                *)
RECURSIVE Instantiate(_, _)
Instantiate(t, ts) ==
    CASE t.k = "param" -> ts[t.i]
      [] t.k \in {"vector", "ref"} -> [t EXCEPT !.of = Instantiate(@, ts)]
      [] t.k = "adt" ->
            [t EXCEPT !.args = [i \in DOMAIN @ |-> Instantiate(@[i], ts)]]
      [] OTHER -> t

Num(n)       == [k |-> "num", n |-> n]
Address(a)   == [k |-> "address", a |-> a]
Struct(vs)   == [k |-> "struct", items |-> vs]
Vec(vs)      == [k |-> "vec", items |-> vs]
Packed(vs)   == [k |-> "packed", items |-> vs]      \* VecU8, VecU64, VecAddress
LocalsOf(vs) == [k |-> "locals", items |-> vs]
Invalid      == [k |-> "invalid"]

IsContainer(v) == v.k \in {"struct", "vec", "packed", "locals"}
IsScalar(t)    == t.k \in {"u64", "u8", "address"}

Layout(t, v) == Declared[t.name].variants[v].fields

RECURSIVE ValuesOf(_)
ValuesOf(t) ==
    CASE t.k = "u64"     -> {Num(n) : n \in Numbers}
      [] t.k = "u8"      -> {Num(n) : n \in Bytes}
      [] t.k = "address" -> {Address(a) : a \in Addresses}
      [] t.k = "signer"  -> {Struct(<<Num(0), Address(a)>>) : a \in Addresses}
      [] t.k \in {"function", "delayed"} -> {[k |-> t.k]}
      [] t.k = "vector"  ->
            {IF IsScalar(t.of) THEN Packed(vs) ELSE Vec(vs) :
                vs \in SeqOf(ValuesOf(t.of), MaxLen)}
      [] t.k = "ref" ->
            \* to a container, or to a scalar in a container
            LET Targets == ValuesOf(t.of) IN
            IF \A v \in Targets : IsContainer(v)
            THEN {[k |-> "cref", to |-> v] : v \in Targets}
            ELSE {[k |-> "iref", to |-> c, idx |-> 1] :
                    c \in UNION {{Packed(<<u, v>>), LocalsOf(<<Invalid, v>>), Struct(<<u, v>>)} :
                                    u \in Targets, v \in Targets}}
      [] t.k = "adt" ->
            UNION {LET Fields == Layout(t, v)
                       Of(i)  == ValuesOf(Instantiate(Fields[i][2], t.args))
                       Packs  == {vs \in [DOMAIN Fields -> UNION {Of(i) : i \in DOMAIN Fields}] :
                                    \A i \in DOMAIN Fields : vs[i] \in Of(i)}
                   IN  {Struct(IF Declared[t.name].enum THEN <<Num(v - 1)>> \o vs ELSE vs) :
                            vs \in Packs} :
                   v \in DOMAIN Declared[t.name].variants}

Init ==
    /\ ty \in LocalTypes
    /\ ty_args \in TypeArgs
    /\ local = Invalid
    /\ named \in SUBSET Adts
    /\ loaded \in {{}, Adts}

(* To store over a value is to move it out first.                          *)
StLoc ==
    /\ local = Invalid
    /\ local' \in ValuesOf(Instantiate(ty, ty_args))
    /\ UNCHANGED <<ty, ty_args, named, loaded>>

MoveLoc ==
    /\ local # Invalid
    /\ local' = Invalid
    /\ UNCHANGED <<ty, ty_args, named, loaded>>

Next == StLoc \/ MoveLoc

Spec == Init /\ [][Next]_vars

-----------------------------------------------------------------------------
(* resolver.rs.                                                            *)
get_adt_name(t) == IF t.k = "adt" THEN t.name ELSE ""

merge_field_names_and_types(names, types) ==
    [i \in DOMAIN names |->
        <<names[i], IF i \in DOMAIN types THEN types[i] ELSE NoType>>]

NoInfo == [enum |-> FALSE, variants |-> <<>>]

(* Names from the source map, types from the loaded struct type, which has *)
(* the type parameters of the struct in them.                              *)
get_adt_info(t) ==
    IF t.k # "adt" \/ get_adt_name(t) \notin named THEN NoInfo
    ELSE LET Known == Source[t.name]
             Names(v) == [i \in DOMAIN Known.variants[v].fields |->
                             Known.variants[v].fields[i][1]]
             Types(v) == IF t.name \notin loaded \/ v \notin DOMAIN Declared[t.name].variants
                         THEN <<>>
                         ELSE [i \in DOMAIN Layout(t, v) |-> Layout(t, v)[i][2]]
         IN  [enum |-> Known.enum,
              variants |-> [v \in DOMAIN Known.variants |->
                  [name |-> Known.variants[v].name,
                   fields |-> merge_field_names_and_types(Names(v), Types(v))]]]

-----------------------------------------------------------------------------
(* debug_value.rs.  A DebugValue is a record: d is its variant.            *)
Primitive(n)         == [d |-> "primitive", n |-> n]
AddressOf(a)         == [d |-> "address", a |-> a]
Vector(ds)           == [d |-> "vector", items |-> ds]
StructOf(n, args, fs) == [d |-> "struct", name |-> n, ty_args |-> args, fields |-> fs]
Error(e)             == [d |-> "error", e |-> e]

(* A type as the words of its text.                                        *)
RECURSIVE format_type(_)
format_type(t) ==
    CASE t.k \in {"u64", "u8", "address", "signer"} -> <<t.k>>
      [] t.k = "vector" -> <<"vector">> \o format_type(t.of)
      [] t.k = "ref"    -> <<"&">> \o format_type(t.of)
      [] t.k = "adt"    -> <<get_adt_name(t)>>
      [] OTHER          -> <<"?">>

format_ty_args(t) ==
    IF t.k = "adt" THEN [i \in DOMAIN t.args |-> format_type(t.args[i])] ELSE <<>>

RECURSIVE serialize_value_untyped(_)

serialize_slice_elem(vs, idx) ==
    IF idx + 1 \in DOMAIN vs THEN serialize_value_untyped(vs[idx + 1])
    ELSE Error("slice(<out of bounds>)")

serialize_indexed_ref(r) == serialize_slice_elem(r.to.items, r.idx)

serialize_container_untyped(c) ==
    CASE c.k \in {"vec", "packed"} ->
            Vector([i \in DOMAIN c.items |-> serialize_value_untyped(c.items[i])])
      [] c.k = "struct" ->
            StructOf("", <<>>, [i \in DOMAIN c.items |->
                                    <<"", serialize_value_untyped(c.items[i])>>])
      [] c.k = "locals" -> Error("...")

serialize_value_untyped(v) ==
    CASE v.k = "invalid" -> [d |-> "invalid"]
      [] v.k = "num"     -> Primitive(v.n)
      [] v.k = "address" -> AddressOf(v.a)
      [] IsContainer(v)  -> serialize_container_untyped(v)
      [] v.k = "cref" -> [d |-> "cref", to |-> serialize_container_untyped(v.to)]
      [] v.k = "iref" -> [d |-> "iref", to |-> serialize_indexed_ref(v)]
      [] v.k = "function" -> [d |-> "closure"]
      [] v.k = "delayed"  -> [d |-> "delayed"]

(* MASTER_ADDRESS_FIELD_OFFSET is 1, behind the tag.                       *)
serialize_signer(vs) ==
    IF Len(vs) > 1 /\ vs[2].k = "address"
    THEN [d |-> "signer", a |-> vs[2].a]
    ELSE Error("signer(<unknown>)")

(* Text, or NoText when the bytes are no UTF-8.                            *)
NoText == [d |-> "none"]
serialize_move_string(vs) ==
    IF Len(vs) > 0 /\ vs[1].k = "packed" /\ \A i \in DOMAIN vs[1].items : vs[1].items[i].n < 128
    THEN [d |-> "string", bytes |-> [i \in DOMAIN vs[1].items |-> vs[1].items[i].n]]
    ELSE NoText

RECURSIVE serialize_value(_, _), serialize_container(_, _)

(* Slip: fields beyond those the source knows are left out.                *)
serialize_fields_zip(vs, infos) ==
    [i \in DOMAIN vs \cap DOMAIN infos |->
        <<infos[i][1], serialize_value(vs[i], infos[i][2])>>]

serialize_fields(vs, infos) ==
    [i \in DOMAIN vs |->
        IF i \in DOMAIN infos
        THEN <<infos[i][1], serialize_value(vs[i], infos[i][2])>>
        ELSE <<"[" \o ToString(i - 1) \o "]", serialize_value(vs[i], NoType)>>]

serialize_enum(vs, variants) ==
    IF vs = <<>> \/ vs[1].k # "num" THEN Error("enum(<bad tag>)")
    ELSE IF vs[1].n + 1 \notin DOMAIN variants THEN Error("enum(<unknown tag>)")
    ELSE [d |-> "variant", name |-> variants[vs[1].n + 1].name,
          fields |-> serialize_fields(Tail(vs), variants[vs[1].n + 1].fields)]

serialize_adt(vs, t) ==
    LET Text == serialize_move_string(vs)
        Info == get_adt_info(t)
    IN  IF get_adt_name(t) = StringName /\ Text # NoText THEN Text
        ELSE IF Info.enum THEN serialize_enum(vs, Info.variants)
        ELSE StructOf(get_adt_name(t), format_ty_args(t),
                IF Info = NoInfo
                THEN [i \in DOMAIN vs |-> <<"", serialize_value(vs[i], NoType)>>]
                ELSE serialize_fields(vs, Info.variants[1].fields))

serialize_container(c, t) ==
    CASE c.k = "struct" /\ t.k = "signer" -> serialize_signer(c.items)
      [] c.k = "struct" /\ t.k # "signer" -> serialize_adt(c.items, t)
      [] c.k = "vec" /\ t.k = "vector" ->
            Vector([i \in DOMAIN c.items |-> serialize_value(c.items[i], t.of)])
      [] OTHER -> serialize_container_untyped(c)

(* Slip: what a reference points to is shown without its type.             *)
serialize_value_shallow(v, t) ==
    IF IsContainer(v) /\ t # NoType THEN serialize_container(v, t)
    ELSE serialize_value_untyped(v)

serialize_value(v, t) ==
    IF v.k = "cref" /\ t.k = "ref"
    THEN [d |-> "cref", to |-> serialize_container(v.to, t.of)]
    ELSE IF IsContainer(v) /\ t # NoType THEN serialize_container(v, t)
    ELSE serialize_value_untyped(v)

(* serialize_local_value: what the client is shown for the local.          *)
Shown == serialize_value(local, ty)

-----------------------------------------------------------------------------
(* replay.rs: the transaction's arguments.  The annotator that decodes     *)
(* them is external: it goes by the types of the running code, knows the   *)
(* names of the ADTs in known, gives bytes as one value, an enum by the    *)
(* fields of its variant, and a struct it has no names for raw.            *)
RECURSIVE view_argument(_, _, _)
view_argument(v, t, known) ==
    CASE t.k \in {"u64", "u8"} -> v
      [] t.k = "address" -> v
      [] t.k = "function" -> [k |-> "closure"]
      [] t.k = "vector" /\ t.of.k = "u8" -> [k |-> "bytes", items |-> v.items]
      [] t.k = "vector" /\ t.of.k # "u8" ->
            Vec([i \in DOMAIN v.items |-> view_argument(v.items[i], t.of, known)])
      [] t.k = "adt" ->
            LET Enum   == Declared[t.name].enum
                Fields == Layout(t, IF Enum THEN v.items[1].n + 1 ELSE 1)
                Items  == IF Enum THEN Tail(v.items) ELSE v.items
                Values == [i \in DOMAIN Fields |->
                    view_argument(Items[i], Instantiate(Fields[i][2], t.args), known)]
            IN  IF t.name \in known
                THEN [k |-> "struct", ty_tag |-> t,
                      value |-> [i \in DOMAIN Fields |-> <<Fields[i][1], Values[i]>>]]
                ELSE [k |-> "raw", items |-> Values]

LiteralAddress(a) == [d |-> "address", literal |-> a]

(* TypeTag::to_canonical_string, which names a type with its module and    *)
(* all its arguments.                                                      *)
RECURSIVE to_canonical_string(_)
to_canonical_string(t) ==
    CASE t.k = "vector" -> <<"vector">> \o to_canonical_string(t.of)
      [] t.k = "adt" -> <<"::", t.name>> \o
            FlattenSeq([i \in DOMAIN t.args |-> to_canonical_string(t.args[i])])
      [] OTHER -> <<t.k>>

RECURSIVE annotated_to_debug_value(_)

(* Slip: the type arguments are not shown.                                 *)
annotated_struct_bare(s) ==
    StructOf(s.ty_tag.name, <<>>,
        [i \in DOMAIN s.value |-> <<s.value[i][1], annotated_to_debug_value(s.value[i][2])>>])

annotated_struct(s) ==
    StructOf(s.ty_tag.name,
        [i \in DOMAIN s.ty_tag.args |-> to_canonical_string(s.ty_tag.args[i])],
        [i \in DOMAIN s.value |-> <<s.value[i][1], annotated_to_debug_value(s.value[i][2])>>])

annotated_to_debug_value(v) ==
    CASE v.k = "num"     -> Primitive(v.n)
      [] v.k = "address" -> LiteralAddress(v.a)
      [] v.k = "bytes"   ->
            [d |-> "primitive", hex |-> [i \in DOMAIN v.items |-> v.items[i].n]]
      [] v.k = "vec"     ->
            Vector([i \in DOMAIN v.items |-> annotated_to_debug_value(v.items[i])])
      [] v.k = "struct"  -> annotated_struct(v)
      [] v.k = "raw"     ->
            StructOf("", <<>>, [i \in DOMAIN v.items |->
                <<"[" \o ToString(i - 1) \o "]", annotated_to_debug_value(v.items[i])>>])
      [] v.k = "closure" -> [d |-> "closure"]

-----------------------------------------------------------------------------
(* Types of which the client can be shown everything: all that is inside   *)
(* is named and loaded, as in the source, and a field that is generic in   *)
(* its struct needs no type to be shown, for it is typed by the struct's   *)
(* parameter and not by what that stands for (resolver.rs:46, 64).         *)
RECURSIVE Generic(_), Plain(_), Detailed(_)
Generic(t) ==
    \/ t.k = "param"
    \/ t.k \in {"vector", "ref"} /\ Generic(t.of)
    \/ t.k = "adt" /\ \E i \in DOMAIN t.args : Generic(t.args[i])

Plain(t) ==
    \/ t.k \in {"u64", "u8", "address", "function", "delayed"}
    \/ t.k = "vector" /\ Plain(t.of)

Detailed(t) ==
    CASE t.k = "param" -> FALSE
      [] t.k \in {"vector", "ref"} -> Detailed(t.of)
      [] t.k = "adt" ->
            /\ t.name \in named \cap loaded
            /\ Source[t.name] = Declared[t.name]
            /\ \A v \in DOMAIN Declared[t.name].variants :
                 \A i \in DOMAIN Layout(t, v) :
                    LET f == Layout(t, v)[i][2] IN
                    IF Generic(f) THEN Plain(Instantiate(f, t.args)) ELSE Detailed(f)
      [] OTHER -> TRUE

(* What the source says the value is.                                      *)
RECURSIVE Meant(_, _)
Meant(v, t) ==
    CASE t.k \in {"u64", "u8"} -> Primitive(v.n)
      [] t.k = "address"  -> AddressOf(v.a)
      [] t.k = "signer"   -> [d |-> "signer", a |-> v.items[2].a]
      [] t.k = "function" -> [d |-> "closure"]
      [] t.k = "delayed"  -> [d |-> "delayed"]
      [] t.k = "vector"   -> Vector([i \in DOMAIN v.items |-> Meant(v.items[i], t.of)])
      [] t.k = "ref" /\ v.k = "cref" -> [d |-> "cref", to |-> Meant(v.to, t.of)]
      [] t.k = "ref" /\ v.k = "iref" ->
            [d |-> "iref", to |-> Meant(v.to.items[v.idx + 1], t.of)]
      [] t.k = "adt" ->
            LET Enum  == Declared[t.name].enum
                Var   == IF Enum THEN v.items[1].n + 1 ELSE 1
                Items == IF Enum THEN Tail(v.items) ELSE v.items
                Children == [i \in DOMAIN Items |->
                    <<Layout(t, Var)[i][1],
                      Meant(Items[i], Instantiate(Layout(t, Var)[i][2], t.args))>>]
            IN  IF t.name = StringName /\ \A i \in DOMAIN Items[1].items : Items[1].items[i].n < 128
                THEN [d |-> "string", bytes |-> [i \in DOMAIN Items[1].items |-> Items[1].items[i].n]]
                ELSE IF Enum
                THEN [d |-> "variant", name |-> Declared[t.name].variants[Var].name,
                      fields |-> Children]
                ELSE StructOf(t.name, format_ty_args(t), Children)

(* A local whose type is known in full is shown as the source has it: the  *)
(* variant by its name, every field by its own, a signer as an address, a  *)
(* string as text, at every depth and behind references.  That is what     *)
(* the choice of a path through five functions, by value and by type, has  *)
(* to add up to (debug_value.rs:176-312).                                  *)
KnownLocalIsShownInFull ==
    local # Invalid /\ Detailed(ty) => Shown = Meant(local, ty)

-----------------------------------------------------------------------------
(* d tells all that u does, u being a value shown without its type.  Only  *)
(* a variant that no source map has is an error.                           *)
RECURSIVE Tells(_, _)
Tells(d, u) ==
    CASE d.d = "signer" -> u.d = "struct" /\ u.fields[2][2] = AddressOf(d.a)
      [] d.d = "string" ->
            /\ u.d = "struct"
            /\ u.fields[1][2] = Vector([i \in DOMAIN d.bytes |-> Primitive(d.bytes[i])])
      [] d.d = "variant" ->
            /\ u.d = "struct"
            /\ Len(u.fields) = Len(d.fields) + 1
            /\ \A i \in DOMAIN d.fields : Tells(d.fields[i][2], u.fields[i + 1][2])
      [] d.d = "struct" ->
            /\ u.d = "struct"
            /\ Len(u.fields) = Len(d.fields)
            /\ \A i \in DOMAIN d.fields : Tells(d.fields[i][2], u.fields[i][2])
      [] d.d = "vector" ->
            /\ u.d = "vector"
            /\ Len(u.items) = Len(d.items)
            /\ \A i \in DOMAIN d.items : Tells(d.items[i], u.items[i])
      [] d.d = "cref" -> u.d = "cref" /\ Tells(d.to, u.to)
      [] d.d = "error" ->
            /\ d.e = "enum(<unknown tag>)"
            /\ \E a \in named :
                 /\ Source[a].enum /\ Source[a] # Declared[a]
                 /\ u.d = "struct" /\ u.fields[1][2].n >= Len(Source[a].variants)
      [] OTHER -> d = u

(* Whatever is known of the type, of generic code, of code without source  *)
(* or of code that is not the source's, no part of the value is missing    *)
(* from what is shown, or shown twice, or an error (debug_value.rs:242-312,*)
(* resolver.rs:30-85).                                                     *)
NothingIsHidden ==
    local # Invalid => Tells(Shown, serialize_value_untyped(local))

(* Two texts of one type: equal, but for the modules and arguments of ADTs *)
(* and what type parameters stand for, which the short one leaves out.     *)
SameType(long, short) ==
    IF "::" \in ToSet(long) \/ "?" \in ToSet(short)
    THEN ToSet(short) \ {"?"} \subseteq ToSet(long)
    ELSE long = short

(* a shows as an argument what d shows as a local.  They differ in how     *)
(* addresses, bytes and strings are written and types are named; in the    *)
(* name of a variant, which an argument does not give; and in the names of *)
(* a struct that the annotator has none for.                               *)
RECURSIVE Agrees(_, _)
Agrees(a, d) ==
    LET Numbered(ds) == [i \in DOMAIN ds |-> ds[i].n]
        FieldsAgree ==
            /\ Len(a.fields) = Len(d.fields)
            /\ \A i \in DOMAIN d.fields : Agrees(a.fields[i][2], d.fields[i][2])
        NamesAgree ==
            a.name # "" => \A i \in DOMAIN d.fields : a.fields[i][1] = d.fields[i][1]
    IN  CASE d.d = "address" -> a.d = "address" /\ a.literal = d.a
          [] d.d = "string"  -> a.d = "struct" /\ a.fields[1][2].hex = d.bytes
          [] d.d = "vector"  ->
                \/ a.d = "primitive" /\ a.hex = Numbered(d.items)
                \/ /\ a.d = "vector"
                   /\ Len(a.items) = Len(d.items)
                   /\ \A i \in DOMAIN d.items : Agrees(a.items[i], d.items[i])
          [] d.d = "variant" -> a.d = "struct" /\ FieldsAgree /\ NamesAgree
          [] d.d = "struct"  ->
                /\ a.d = "struct" /\ FieldsAgree /\ NamesAgree
                /\ a.name # "" =>
                      /\ a.name = d.name
                      /\ Len(a.ty_args) = Len(d.ty_args)
                      /\ \A i \in DOMAIN d.ty_args : SameType(a.ty_args[i], d.ty_args[i])
          [] OTHER -> a = d

RECURSIVE IsArgument(_)
IsArgument(t) ==
    \/ IsScalar(t)
    \/ t.k = "function"
    \/ t.k = "vector" /\ IsArgument(t.of)
    \/ t.k = "adt"

(* A transaction's argument and the parameter it becomes, shown by two     *)
(* pieces of code that share nothing, agree at every depth: the same       *)
(* numbers, addresses and bytes in the same places, structs and fields of  *)
(* the same names, types of which the one's text is the short form of the  *)
(* other's (replay.rs:291-349 and debug_value.rs:124-312).                 *)
ArgumentAgreesWithLocal ==
    local # Invalid /\ IsArgument(ty) /\ Detailed(ty) =>
        \A known \in {{}, Adts} :
            LET decoded == view_argument(local, Instantiate(ty, ty_args), known)
            IN  Agrees(annotated_to_debug_value(decoded), Shown)
=============================================================================
