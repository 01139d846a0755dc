------------------------------ MODULE Signature ------------------------------
(***************************************************************************)
(* The signature test of the package loader (hlpkg/hlpkg.cpp): a 64-bit    *)
(* hash of the header's bytes compared with the signature in the low 48    *)
(* bits only.  Carries move upwards, so the low 48 bits are computed alone, *)
(* as three 16-bit limbs, lowest first.                                    *)
(***************************************************************************)
EXTENDS Integers, Sequences

Limb == 65536

\* Four rounds of computed = ((computed << 3) + computed) + byte, on the bytes of
\* a field from k on; every field is a multiple of four bytes long.
HashFour(h, bytes, k) ==
    LET low  == bytes[k] * 729 + bytes[k + 1] * 81 + bytes[k + 2] * 9 + bytes[k + 3]
                    + h[1] * 6561
        mid  == low \div Limb + h[2] * 6561
        high == mid \div Limb + h[3] * 6561
    IN  <<low % Limb, mid % Limb, high % Limb>>

\* The bytes of a field are folded into the hash of the fields before it.
HashField(seed, bytes) ==
    LET after[k \in 0..(Len(bytes) \div 4)] ==
            IF k = 0 THEN seed ELSE HashFour(after[k - 1], bytes, 4 * k - 3)
    IN  after[Len(bytes) \div 4]

Zeros(n) == [k \in 1..n |-> 0]

\* A field of n bytes: the value's bytes, lowest address first, then zeros.
Field(bytes, n) == bytes \o Zeros(n - Len(bytes))

LittleEndian(value, n) == [k \in 1..n |->
    IF k > 4 THEN 0 ELSE (value \div 256^(k - 1)) % 256]

\* The bytes of HLPKGHeader before the build timestamp, as hlpkg_load fills
\* them for every package.
Numbers ==
    Field(<<71, 75, 80, 76, 72>>, 8)                           \* magic
        \o LittleEndian(1, 4) \o LittleEndian(200, 4)          \* version, header_size
        \o LittleEndian(1024, 4) \o LittleEndian(256, 4)       \* binary_size, data_size
        \o LittleEndian(0, 4) \o LittleEndian(9, 4)            \* dep_count, permissions
        \o <<239, 205, 171, 144, 120, 86, 52, 18>>             \* signature
Name == Field(<<115, 97, 109, 112, 108, 101, 95, 97, 112, 112>>, 64)    \* "sample_app"
AppVersion == Field(<<49, 46, 48, 46, 48>>, 16)                         \* "1.0.0"
Author == Field(<<72, 97, 108, 100, 101, 110, 32, 68, 101, 118>>, 64)   \* "Halden Dev"

\* The hash after each of them, in the order of their addresses.
HashOfNumbers == HashField(<<0, 0, 0>>, Numbers)
HashOfName == HashField(HashOfNumbers, Name)
HashOfVersion == HashField(HashOfName, AppVersion)
HeaderHash == HashField(HashOfVersion, Author)

\* The low 48 bits of the signature 0x1234567890ABCDEF.
SignatureLow == <<52719, 37035, 22136>>

\* The header is hashed without its last eight bytes: the timestamp is in, the
\* checksum and the padding are out.
verify_signature(build_timestamp) ==
    HashField(HeaderHash, LittleEndian(build_timestamp, 8)) = SignatureLow
=============================================================================
