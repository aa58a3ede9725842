SPECIFICATION Spec
CONSTANTS
  Nobody = Nobody
  s1 = s1
  s2 = s2
  s3 = s3
  r1 = r1
  r2 = r2
  q1 = q1
  b1 = b1
  b2 = b2
  Block = {b1, b2}
  Uses <- OneToOne
PROPERTIES
  SetNotified
