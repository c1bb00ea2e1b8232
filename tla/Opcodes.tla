------------------------------- MODULE Opcodes -------------------------------
(***************************************************************************)
(* The opcode numbers of script/opcodes.py that the interpreter names, and *)
(* the sets it tests an opcode against.  They are the real byte values:    *)
(* the interpreter's guards are comparisons on them (op > OP_16,           *)
(* OP_IF <= op <= OP_ENDIF, ...), so the order matters.                    *)
(***************************************************************************)
EXTENDS Naturals

OP_0 == 0
OP_PUSHDATA1 == 76
OP_PUSHDATA2 == 77
OP_PUSHDATA4 == 78
OP_1NEGATE == 79
OP_RESERVED == 80
OP_1 == 81
OP_16 == 96

OP_NOP == 97
OP_VER == 98
OP_IF == 99
OP_NOTIF == 100
OP_VERIF == 101
OP_VERNOTIF == 102
OP_ELSE == 103
OP_ENDIF == 104
OP_VERIFY == 105
OP_RETURN == 106

OP_TOALTSTACK == 107
OP_FROMALTSTACK == 108
OP_2DROP == 109
OP_2DUP == 110
OP_3DUP == 111
OP_2OVER == 112
OP_2ROT == 113
OP_2SWAP == 114
OP_IFDUP == 115
OP_DEPTH == 116
OP_DROP == 117
OP_DUP == 118
OP_NIP == 119
OP_OVER == 120
OP_PICK == 121
OP_ROLL == 122
OP_ROT == 123
OP_SWAP == 124
OP_TUCK == 125
OP_SIZE == 130

OP_EQUAL == 135
OP_EQUALVERIFY == 136
OP_RESERVED1 == 137
OP_RESERVED2 == 138

OP_1ADD == 139
OP_1SUB == 140
OP_NEGATE == 143
OP_ABS == 144
OP_NOT == 145
OP_0NOTEQUAL == 146
OP_ADD == 147
OP_SUB == 148
OP_BOOLAND == 154
OP_BOOLOR == 155
OP_NUMEQUAL == 156
OP_NUMEQUALVERIFY == 157
OP_NUMNOTEQUAL == 158
OP_LESSTHAN == 159
OP_GREATERTHAN == 160
OP_LESSTHANOREQUAL == 161
OP_GREATERTHANOREQUAL == 162
OP_MIN == 163
OP_MAX == 164
OP_WITHIN == 165

OP_RIPEMD160 == 166
OP_SHA1 == 167
OP_SHA256 == 168
OP_HASH160 == 169
OP_HASH256 == 170
OP_CODESEPARATOR == 171
OP_CHECKSIG == 172
OP_CHECKSIGVERIFY == 173
OP_CHECKMULTISIG == 174
OP_CHECKMULTISIGVERIFY == 175

OP_NOP1 == 176
OP_CHECKLOCKTIMEVERIFY == 177
OP_CHECKSEQUENCEVERIFY == 178
OP_NOP4 == 179
OP_NOP10 == 185
OP_CHECKSIGADD == 186
OP_INVALIDOPCODE == 255

Opcode == 0..255
------------------------------------------------------------------------------
SMALL_INTS == OP_1..OP_16

\* The range test of the interpreter, not CONDITIONAL_OPCODES: VERIF and
\* VERNOTIF lie inside it and so are looked at even in an inactive branch.
CONDITIONAL_RANGE == OP_IF..OP_ENDIF

\* CAT SUBSTR LEFT RIGHT, INVERT AND OR XOR, 2MUL 2DIV, MUL DIV MOD LSHIFT RSHIFT
DISABLED_OPCODES == (126..129) \cup (131..134) \cup {141, 142} \cup (149..153)

RESERVED_OPCODES ==
  {OP_RESERVED, OP_VER, OP_RESERVED1, OP_RESERVED2, OP_VERIF, OP_VERNOTIF}

UPGRADABLE_NOPS == {OP_NOP1} \cup (OP_NOP4..OP_NOP10)

STACK_SHUFFLES ==
  {OP_2DROP, OP_2DUP, OP_3DUP, OP_2OVER, OP_2ROT, OP_2SWAP, OP_DROP, OP_DUP,
   OP_NIP, OP_OVER, OP_ROT, OP_SWAP, OP_TUCK}

UNARY_NUMERIC == {OP_1ADD, OP_1SUB, OP_NEGATE, OP_ABS, OP_NOT, OP_0NOTEQUAL}

BINARY_NUMERIC ==
  {OP_ADD, OP_SUB, OP_BOOLAND, OP_BOOLOR, OP_NUMEQUAL, OP_NUMEQUALVERIFY,
   OP_NUMNOTEQUAL, OP_LESSTHAN, OP_GREATERTHAN, OP_LESSTHANOREQUAL,
   OP_GREATERTHANOREQUAL, OP_MIN, OP_MAX}

HASH_OPCODES == OP_RIPEMD160..OP_HASH256

CHECKSIG_OPCODES == {OP_CHECKSIG, OP_CHECKSIGVERIFY}
CHECKMULTISIG_OPCODES == {OP_CHECKMULTISIG, OP_CHECKMULTISIGVERIFY}

\* BIP342: an opcode that makes a tapscript succeed without being run.
OP_SUCCESS ==
  {80, 98} \cup (126..129) \cup (131..134) \cup {137, 138} \cup {141, 142}
    \cup (149..153) \cup (187..254)
==============================================================================
