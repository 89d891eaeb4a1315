---------------------------- MODULE MCCheneyCopy ----------------------------
EXTENDS CheneyCopy

CONSTANTS A, B, C, W

MCObjects == {A, B, C, W}
MCWeak == {W}
=============================================================================
