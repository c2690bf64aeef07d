------------------------- MODULE MCResponseReaders --------------------------
EXTENDS ResponseReaders

MCTypeTable == (0 :> Plain("UInt8"))
=============================================================================
