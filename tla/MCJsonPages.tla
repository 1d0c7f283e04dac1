---------------------------- MODULE MCJsonPages -----------------------------
EXTENDS JsonPages

MCName == { <<"t">>, <<"backslash", "t">>, <<"t", "control">>, <<"tab", "quote">> }
=============================================================================
