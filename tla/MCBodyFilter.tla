------------------------------ MODULE MCBodyFilter ------------------------------
EXTENDS BrotliBodyFilter

MCMaxLengths == {Unset, 1}
=================================================================================
