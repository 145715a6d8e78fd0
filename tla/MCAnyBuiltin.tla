---------------------------- MODULE MCAnyBuiltin ----------------------------
EXTENDS AnyBuiltin
=============================================================================
