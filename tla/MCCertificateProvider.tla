----------------------- MODULE MCCertificateProvider -----------------------
(* Instances of CertificateProvider for TLC.                               *)
EXTENDS CertificateProvider

\* The second certificate is a renewal for the same key, the third is not.
RenewThenReplace == <<1, 1, 2>>
=============================================================================
