----------------------------- MODULE MCWireFormat -----------------------------
EXTENDS WireFormat

Byte == Number(1)
Long == Number(4)
Name == Struct(<<Ptr(String), Byte>>)

SmallTypes == {
    String, Byte,
    Vector(Byte), Vector(Long), Vector(Ptr(String)),
    Struct(<<Byte, Long>>), Name,
    Struct(<<String, Bool>>), Struct(<<Enum(1, 1), Enum(0, 2)>>),
    UnionOf(<<Byte, Ptr(Name)>>) }

SmallConverted == {
    String, Vector(Byte), Vector(Long), Struct(<<Byte, Long, Byte>>),
    Struct(<<Byte, Array(Number(2), 2)>>),
    Struct(<<Byte, UnionOf(<<Byte, Long>>), Byte>>),
    Struct(<<UnionOf(<<Byte, Long>>), Number(2)>>),
    UnionOf(<<Byte, Long, Struct(<<Long, Byte>>)>>),
    Extending(UnionOf(<<Byte, Long>>), 1),
    Struct(<<Byte, Enum(0, 2), Long>>), Vector(Enum(1, 1)),
    Struct(<<Bool, Byte>>), Vector(Struct(<<Byte, Long>>)),
    Struct(<<Ptr(String), Byte>>), Struct(<<String, Byte>>),
    Struct(<<Byte, Ptr(Long)>>), UnionOf(<<Ptr(Byte), Number(2)>>),
    Vector(Ptr(Long)), Vector(String) }

SmallScalars == {1, 51}
SmallStrings == {<<>>, <<49>>, <<195, 169>>, <<98, 99, 100>>}
=============================================================================
