---------------------------- MODULE MCConversion ----------------------------
EXTENDS Conversion

\* Every origin and either answer to whether a target is named.
Kinds == {<<"upload", TRUE>>, <<"glb", FALSE>>, <<"borrowed", TRUE>>,
          <<"borrowed", FALSE>>}
\* The kind of job that loses its model.
Upload == {<<"upload", TRUE>>}
=============================================================================
