------------------------------- MODULE Checker -------------------------------
(***************************************************************************)
(* vm/checker.py and vm/flags.py: the flag-dependent encoding checks the   *)
(* interpreter makes before it asks the signature checker, and the checker *)
(* itself as what the interpreter sees of it.  Which (signature, key,      *)
(* script code) triples verify is chosen per instance: what a signature    *)
(* commits to is the subject of SigHash and SigChecker, and its encoding   *)
(* that of Der.                                                            *)
(***************************************************************************)
EXTENDS ScriptNum

CONSTANTS
  VerifyEcdsa(_, _, _, _),   \* signature, public key, script code, sig version
  VerifySchnorr(_, _, _),    \* signature, public key, code separator position
  ValidDer(_),               \* is_valid_der_encoding
  LowS(_)                    \* is_low_s

SigVersion == {"BASE", "WITNESS_V0", "TAPSCRIPT"}

VerificationFlag ==
  {"P2SH", "STRICTENC", "DERSIG", "LOW_S", "NULLDUMMY", "SIGPUSHONLY",
   "MINIMALDATA", "DISCOURAGE_UPGRADABLE_NOPS", "CLEANSTACK",
   "CHECKLOCKTIMEVERIFY", "CHECKSEQUENCEVERIFY", "WITNESS",
   "DISCOURAGE_UPGRADABLE_WITNESS_PROGRAM", "MINIMALIF", "NULLFAIL",
   "WITNESS_PUBKEYTYPE", "CONST_SCRIPTCODE", "TAPROOT",
   "DISCOURAGE_UPGRADABLE_PUBKEYTYPE", "DISCOURAGE_OP_SUCCESS",
   "DISCOURAGE_UPGRADABLE_TAPROOT_VERSION"}

\* vm/errors.py: why an evaluation, or the verification around it, ended.
ScriptError ==
  {"OK", "UNKNOWN_ERROR", "EVAL_FALSE", "OP_RETURN", "SCRIPTNUM", "SCRIPT_SIZE",
   "PUSH_SIZE", "OP_COUNT", "STACK_SIZE", "SIG_COUNT", "PUBKEY_COUNT", "VERIFY",
   "EQUALVERIFY", "CHECKMULTISIGVERIFY", "CHECKSIGVERIFY", "NUMEQUALVERIFY",
   "BAD_OPCODE", "DISABLED_OPCODE", "INVALID_STACK_OPERATION",
   "INVALID_ALTSTACK_OPERATION", "UNBALANCED_CONDITIONAL", "NEGATIVE_LOCKTIME",
   "UNSATISFIED_LOCKTIME", "SIG_HASHTYPE", "SIG_DER", "MINIMALDATA",
   "SIG_PUSHONLY", "SIG_HIGH_S", "SIG_NULLDUMMY", "PUBKEYTYPE", "CLEANSTACK",
   "MINIMALIF", "SIG_NULLFAIL", "DISCOURAGE_UPGRADABLE_NOPS",
   "DISCOURAGE_UPGRADABLE_WITNESS_PROGRAM",
   "DISCOURAGE_UPGRADABLE_TAPROOT_VERSION", "DISCOURAGE_OP_SUCCESS",
   "DISCOURAGE_UPGRADABLE_PUBKEYTYPE", "WITNESS_PROGRAM_WRONG_LENGTH",
   "WITNESS_PROGRAM_WITNESS_EMPTY", "WITNESS_PROGRAM_MISMATCH",
   "WITNESS_MALLEATED", "WITNESS_MALLEATED_P2SH", "WITNESS_UNEXPECTED",
   "WITNESS_PUBKEYTYPE", "SCHNORR_SIG_SIZE", "SCHNORR_SIG_HASHTYPE",
   "SCHNORR_SIG", "TAPROOT_WRONG_CONTROL_SIZE", "TAPSCRIPT_VALIDATION_WEIGHT",
   "TAPSCRIPT_CHECKMULTISIG", "TAPSCRIPT_MINIMALIF", "TAPSCRIPT_EMPTY_PUBKEY",
   "OP_CODESEPARATOR", "SIG_FINDANDDELETE"}

\* SIGHASH_ALL, NONE or SINGLE in the last byte, with or without ANYONECANPAY.
is_defined_hashtype(sig) == sig # << >> /\ sig[Len(sig)] % 128 \in 1..3

is_compressed(pubkey) == Len(pubkey) = 33 /\ pubkey[1] \in {2, 3}

is_compressed_or_uncompressed(pubkey) ==
  is_compressed(pubkey) \/ (Len(pubkey) = 65 /\ pubkey[1] = 4)

\* An empty signature is exempt: it is how a script declines to sign.
check_signature_encoding(sig, flags) ==
  IF sig = << >> THEN "OK"
  ELSE IF flags \cap {"DERSIG", "LOW_S", "STRICTENC"} # {} /\ ~ValidDer(sig)
    THEN "SIG_DER"
  ELSE IF "LOW_S" \in flags /\ ~LowS(sig) THEN "SIG_HIGH_S"
  ELSE IF "STRICTENC" \in flags /\ ~is_defined_hashtype(sig) THEN "SIG_HASHTYPE"
  ELSE "OK"

check_pubkey_encoding(pubkey, flags, sig_version) ==
  IF "STRICTENC" \in flags /\ ~is_compressed_or_uncompressed(pubkey)
    THEN "PUBKEYTYPE"
  ELSE IF /\ sig_version = "WITNESS_V0"
          /\ "WITNESS_PUBKEYTYPE" \in flags
          /\ ~is_compressed(pubkey)
    THEN "WITNESS_PUBKEYTYPE"
  ELSE "OK"

\* The two checks in the order every ECDSA signature opcode makes them.
EncodingError(sig, pubkey, flags, sig_version) ==
  LET e == check_signature_encoding(sig, flags)
  IN  IF e # "OK" THEN e ELSE check_pubkey_encoding(pubkey, flags, sig_version)

\* An empty signature never reaches the checker and is simply invalid.
EcdsaValid(sig, pubkey, script_code, sig_version) ==
  sig # << >> /\ VerifyEcdsa(sig, pubkey, script_code, sig_version)
==============================================================================
